---- MODULE Spec2Model ----
(***************************************************************************)
(* A model of the ingress-gce resource-graph engine:                       *)
(*   - the firewall controller (pkg/firewalls/controller.go),              *)
(*   - the backend pool (pkg/backends),                                    *)
(*   - GCLB discovery and deletion verification (pkg/fuzz),                *)
(*   - the composite resource helpers (pkg/composite).                     *)
(* Each component has its own specification over the shared variables.     *)
(***************************************************************************)
EXTENDS Integers, Sequences, FiniteSets, TLC

VARIABLES
    \* ---- firewall controller ----
    ingStore,      \* the ingress informer's store: ingress id -> ingress object
    svcStore,      \* the service informer's store: the set of known services
    readyNodes,    \* the names of the ready nodes
    subnets,       \* the cloud's subnetworks, in list order
    EnableL7Ilb,   \* flags.F.EnableL7Ilb
    hasSynced,     \* ctx.HasSynced()
    wq,            \* the work queue: keys waiting for the worker, in order
    dirty,         \* the work queue: keys that need processing
    processing,    \* the work queue: keys being processed
    fwPc,          \* the worker: "idle", "processing", "returned"
    lastSync,      \* what the sync attempt in progress did (NoSync when none)
    \* ---- deletion verification ----
    cloud,         \* the cloud: [service, key] -> what a Get of it answers
    gclb,          \* the GCLB graph under verification
    delPc,         \* "idle", "returned"
    delResult,     \* what the verification call returned
    \* ---- GCLB discovery ----
    gfrStore,      \* the cloud's global forwarding rules: rule id -> rule
    proxyUrlMap,   \* the URL map each target proxy of the cloud references
    discFailure,   \* the cloud call that fails (NoFailure when none does)
    discPc,        \* "idle", "returned"
    discResult,    \* what GCLBForVIP returned
    \* ---- backend pool ----
    beStore,       \* the cloud's backend services: key -> object (NoBackend when absent)
    beResult,      \* what the last call on the pool did and returned
    \* ---- Backends.Delete racing with garbage collection (over beStore) ----
    delCalls,      \* the Delete calls: caller -> where it is and what it saw
    gcDeleted,     \* the keys the garbage collector deleted
    \* ---- backend features (pkg/backends/features) ----
    lbBackend,     \* the backend service EnsureLocalityLbPolicy is applied to
    lbResult,      \* the last call of EnsureLocalityLbPolicy: its inputs and what it returned
    \* ---- the L7-ILB subnet source range (over subnets) ----
    srcRange,      \* the last call of ILBSubnetSourceRange: what it saw and returned
    \* ---- composite conversions (pkg/composite) ----
    convWire,      \* the wire object at hand: the one given, then the one toAlpha/toBeta/toGA made
    convComposite, \* the composite object at hand (NoComposite before the first conversion)
    convFirst,     \* the composite the given wire object was converted to
    convPc,        \* "wire", "composite", "written", "reread", or "failed"
    convCalls,     \* the cloud calls the composite functions issued, in order
    \* ---- the composite code generator (pkg/composite/gen) ----
    genSchema,     \* the API schema at hand: type name -> property name -> property schema
    typesQueue,    \* the names of the types still to be parsed, in order
    completed,     \* the names of the types parsed so far
    AllApiServices, \* the services emitted so far, in order
    genPc,         \* "idle", "queued", "parsing", "done"
    \* ---- FakeLoadBalancers (pkg/loadbalancers) ----
    fakeLb,        \* the fake's lists: resource kind -> the stored names, in order
    fakeResult     \* the last call on the fake: its inputs, what it returned, the lists before

fwVars == <<ingStore, svcStore, readyNodes, subnets, EnableL7Ilb, hasSynced,
            wq, dirty, processing, fwPc, lastSync>>

delVars == <<cloud, gclb, delPc, delResult>>

discVars == <<gfrStore, proxyUrlMap, discFailure, discPc, discResult>>

beVars == <<beStore, beResult>>

raceVars == <<delCalls, gcDeleted>>

lbVars == <<lbBackend, lbResult>>

srcVars == <<srcRange>>

convVars == <<convWire, convComposite, convFirst, convPc, convCalls>>

genVars == <<genSchema, typesQueue, completed, AllApiServices, genPc>>

fakeVars == <<fakeLb, fakeResult>>

vars == <<fwVars, delVars, discVars, beVars, raceVars, lbVars, srcVars, convVars, genVars,
          fakeVars>>

\* What each component leaves alone.
notFw == <<convVars, genVars, fakeVars, delVars, discVars, beVars, raceVars, lbVars, srcVars>>
notDel == <<convVars, genVars, fakeVars, fwVars, discVars, beVars, raceVars, lbVars, srcVars>>
notDisc == <<convVars, genVars, fakeVars, fwVars, delVars, beVars, raceVars, lbVars, srcVars>>
notBe == <<convVars, genVars, fakeVars, fwVars, delVars, discVars, raceVars, lbVars, srcVars>>
notRace == <<convVars, genVars, fakeVars, fwVars, delVars, discVars, beResult, lbVars, srcVars>>
notLb == <<convVars, genVars, fakeVars, fwVars, delVars, discVars, beVars, raceVars, srcVars>>
notConv == <<genVars, fakeVars, fwVars, delVars, discVars, beVars, raceVars, lbVars, srcVars>>
notGen == <<convVars, fakeVars, fwVars, delVars, discVars, beVars, raceVars, lbVars, srcVars>>
notFake == <<convVars, genVars, fwVars, delVars, discVars, beVars, raceVars, lbVars, srcVars>>
notSrc == <<convVars, genVars, fakeVars, ingStore, svcStore, readyNodes, EnableL7Ilb,
            hasSynced, wq, dirty, processing, fwPc, lastSync, delVars, discVars, beVars,
            raceVars, lbVars>>

\* The deletion verifier at rest.
DelQuiet ==
    /\ cloud = <<>>
    /\ gclb = <<>>
    /\ delPc = "idle"
    /\ delResult = <<>>

\* GCLB discovery at rest.
DiscQuiet ==
    /\ gfrStore = <<>>
    /\ proxyUrlMap = <<>>
    /\ discFailure = <<>>
    /\ discPc = "idle"
    /\ discResult = <<>>

\* The backend pool at rest.
BeQuiet ==
    /\ beStore = <<>>
    /\ beResult = <<>>

\* No Delete call and no garbage collection under way.
RaceQuiet ==
    /\ delCalls = <<>>
    /\ gcDeleted = {}

\* No call of ILBSubnetSourceRange on its own.
SrcQuiet == srcRange = <<>>

\* No composite conversion under way.
ConvQuiet ==
    /\ convWire = <<>>
    /\ convComposite = <<>>
    /\ convFirst = <<>>
    /\ convPc = "wire"
    /\ convCalls = <<>>

\* The code generator before it is given a schema.
GenQuiet ==
    /\ genSchema = <<>>
    /\ typesQueue = <<>>
    /\ completed = {}
    /\ AllApiServices = <<>>
    /\ genPc = "idle"

\* No FakeLoadBalancers constructed.
FakeQuiet ==
    /\ fakeLb = <<>>
    /\ fakeResult = <<>>

\* No backend feature being ensured.
LbQuiet ==
    /\ lbBackend = <<>>
    /\ lbResult = <<>>

\* The firewall controller before it is constructed.
FwQuiet ==
    /\ ingStore = <<>>
    /\ svcStore = {}
    /\ readyNodes = {}
    /\ subnets = <<>>
    /\ EnableL7Ilb = FALSE
    /\ hasSynced = FALSE
    /\ wq = <<>>
    /\ dirty = {}
    /\ processing = {}
    /\ fwPc = "idle"
    /\ lastSync = <<>>

(***************************************************************************)
(* Bounds of the model.                                                    *)
(***************************************************************************)
NumIngresses == 2
\* How many resources of the cloud may answer a Get with an error at once.
MaxGetErrors == 2

IngressIds == 1..NumIngresses
Services == {"svc-a", "svc-b"}
NodeSets == {{}, {"node-1"}}

RECURSIVE SeqOfSet(_)
\* The elements of a finite set of integers in ascending order (the order in
\* which the store lists ingresses).
SeqOfSet(S) ==
    IF S = {} THEN <<>>
    ELSE LET m == CHOOSE x \in S : \A y \in S : x <= y
         IN <<m>> \o SeqOfSet(S \ {m})

(***************************************************************************)
(* Ingresses.  The controller reads an ingress only through the predicates *)
(* utils.IsGCEIngress, utils.IsGCEMultiClusterIngress,                     *)
(* utils.IsGCEL7ILBIngress and the suppress annotation; an ingress object  *)
(* carries the value of each.                                              *)
(***************************************************************************)
Ing(id, gce, mci, ilb, suppress) ==
    [id |-> id, present |-> TRUE, gce |-> gce, mci |-> mci, ilb |-> ilb,
     suppress |-> suppress]

NoIngress(id) ==
    [id |-> id, present |-> FALSE, gce |-> FALSE, mci |-> FALSE, ilb |-> FALSE,
     suppress |-> FALSE]

IngressShapes(id) ==
    { Ing(id, TRUE, FALSE, FALSE, FALSE),     \* class gce
      Ing(id, TRUE, FALSE, FALSE, TRUE),      \* class gce, XPN events suppressed
      Ing(id, TRUE, FALSE, TRUE, FALSE),      \* class gce-internal (L7-ILB)
      Ing(id, FALSE, TRUE, FALSE, FALSE),     \* class gce-multi-cluster
      Ing(id, FALSE, FALSE, FALSE, FALSE) }   \* another controller's class

IsGCEIngress(ing) == ing.gce
IsGCEMultiClusterIngress(ing) == ing.mci
IsGCEL7ILBIngress(ing) == ing.ilb
SuppressFirewallXPNError(ing) == ing.suppress

\* The service an ingress routes to.
BackendOf(id) == IF id % 2 = 1 THEN "svc-a" ELSE "svc-b"
ReferencesService(ing, svc) == BackendOf(ing.id) = svc

\* ctx.Ingresses().List(): every ingress of the store, in store order.
IngressesList ==
    LET ids == SeqOfSet({i \in IngressIds : ingStore[i].present})
    IN [k \in 1..Len(ids) |-> ingStore[ids[k]]]

(***************************************************************************)
(* The task queue (utils.PeriodicTaskQueue over a client-go work queue).   *)
(***************************************************************************)
queueKey == "queueKey"

\* The key under which a handler enqueues: always the sentinel.
EnqueueKeyPerObject(objKey) == objKey
EnqueueKey(objKey) == queueKey

\* workqueue.Add
Enqueue(key) ==
    /\ dirty' = dirty \cup {key}
    /\ wq' = IF key \in dirty \/ key \in processing THEN wq ELSE Append(wq, key)
    /\ UNCHANGED processing

NoEnqueue == UNCHANGED <<wq, dirty, processing>>

(***************************************************************************)
(* Subnetworks and the L7-ILB source range.                                *)
(***************************************************************************)
Region == "us-central1"
ClusterNetwork == "default"

Subnet(region, network, role, purpose, cidr) ==
    [region |-> region, network |-> network, role |-> role,
     purpose |-> purpose, cidr |-> cidr]

ActiveIlbSubnet == Subnet(Region, ClusterNetwork, "ACTIVE",
                          "INTERNAL_HTTPS_LOAD_BALANCER", "10.0.0.0/24")
BackupIlbSubnet == Subnet(Region, ClusterNetwork, "BACKUP",
                          "INTERNAL_HTTPS_LOAD_BALANCER", "10.9.0.0/24")
OtherRegionSubnet == Subnet("us-west1", ClusterNetwork, "ACTIVE",
                            "INTERNAL_HTTPS_LOAD_BALANCER", "10.1.2.0/24")

SubnetConfigs ==
    { <<>>, <<ActiveIlbSubnet>>, <<OtherRegionSubnet, BackupIlbSubnet>>,
      <<BackupIlbSubnet, OtherRegionSubnet, ActiveIlbSubnet>> }

\* A List that answers the subnetworks of every region.
SubnetworksListEveryRegion(all, region) == all

\* AlphaSubnetworks().List(ctx, region, filter.None)
SubnetworksList(all, region) == SelectSeq(all, LAMBDA s : s.region = region)

RECURSIVE FirstIlbSubnet(_)
FirstIlbSubnet(list) ==
    IF list = <<>> THEN [range |-> "", err |-> "L7 ILB Subnet not found in region"]
    ELSE IF Head(list).role = "ACTIVE"
            /\ Head(list).purpose = "INTERNAL_HTTPS_LOAD_BALANCER"
         THEN [range |-> Head(list).cidr, err |-> ""]
         ELSE FirstIlbSubnet(Tail(list))

\* listOK: whether the List call succeeded.
ILBSubnetSourceRange(all, region, listOK) ==
    IF ~listOK THEN [range |-> "", err |-> "error obtaining subnets for region"]
    ELSE FirstIlbSubnet(SubnetworksList(all, region))

\* A source range that is empty when the subnet cannot be resolved.
ilbFirewallSrcRangeOrNone(gceIngresses, all, listOK) ==
    LET ilbEnabled == \E k \in 1..Len(gceIngresses) : IsGCEL7ILBIngress(gceIngresses[k])
    IN IF ilbEnabled
       THEN [range |-> ILBSubnetSourceRange(all, Region, listOK).range, err |-> ""]
       ELSE [range |-> "", err |-> ""]

\* FirewallController.ilbFirewallSrcRange
ilbFirewallSrcRange(gceIngresses, all, listOK) ==
    LET ilbEnabled == \E k \in 1..Len(gceIngresses) : IsGCEL7ILBIngress(gceIngresses[k])
    IN IF ilbEnabled
       THEN LET r == ILBSubnetSourceRange(all, Region, listOK)
            IN IF r.err # ""
               THEN [range |-> "", err |-> "error unable to get ILB subnet source ranges"]
               ELSE [range |-> r.range, err |-> ""]
       ELSE [range |-> "", err |-> ""]

(***************************************************************************)
(* FirewallController.sync                                                 *)
(***************************************************************************)
\* The NEG endpoint port of a service; svc-a is NEG-enabled, svc-b is not.
NegPortsOfService(svc) == IF svc = "svc-a" THEN {"8080"} ELSE {}

RECURSIVE GatherEndpointPorts(_, _)
\* translator.GatherEndpointPorts(fwc.ToSvcPorts(gceIngresses)): the endpoint
\* ports of the known NEG-enabled services the ingresses route to.
GatherEndpointPorts(ings, known) ==
    IF ings = <<>> THEN {}
    ELSE (IF BackendOf(Head(ings).id) \in known
          THEN NegPortsOfService(BackendOf(Head(ings).id)) ELSE {})
         \cup GatherEndpointPorts(Tail(ings), known)

RECURSIVE XPNEventsNoSuppress(_)
XPNEventsNoSuppress(ings) ==
    IF ings = <<>> THEN <<>>
    ELSE <<[ing |-> Head(ings).id, type |-> "Normal", reason |-> "XPN"]>>
         \o XPNEventsNoSuppress(Tail(ings))

RECURSIVE XPNEvents(_)
\* The events raised on an XPN error, in the order of the loop.
XPNEvents(ings) ==
    IF ings = <<>> THEN <<>>
    ELSE IF SuppressFirewallXPNError(Head(ings))
         THEN XPNEvents(Tail(ings))
         ELSE <<[ing |-> Head(ings).id, type |-> "Normal", reason |-> "XPN"]>>
              \o XPNEvents(Tail(ings))

\* What one sync attempt did: the error it returned ("" for nil), how often it
\* called firewallPool.GC and firewallPool.Sync, what Sync answered (pool) and
\* was given, and the events it recorded; with it, whether the node lister
\* and the subnet List call answered in the attempt (nodesOK, listOK).
NoSync == [ran |-> FALSE, err |-> "", gc |-> 0, sync |-> 0, pool |-> "",
           nodeNames |-> {}, negPorts |-> {}, additionalRanges |-> <<>>,
           events |-> <<>>, nodesOK |-> TRUE, listOK |-> TRUE]

SyncOutcome(err, gc, pool, nodeNames, negPorts, ranges, events) ==
    [ran |-> TRUE, err |-> err, gc |-> gc, sync |-> IF pool = "" THEN 0 ELSE 1,
     pool |-> pool, nodeNames |-> nodeNames, negPorts |-> negPorts,
     additionalRanges |-> ranges, events |-> events]

PoolOutcomes == {"ok", "xpn", "error"}

GceOrMultiClusterIngresses(list) ==
    SelectSeq(list, LAMBDA ing : IsGCEIngress(ing) \/ IsGCEMultiClusterIngress(ing))

\* The managed ingresses of a sync: the store's list filtered by IsGCEIngress.
GceIngresses(list) == SelectSeq(list, IsGCEIngress)

\* Ranges that depend on the queue: none while a new trigger is waiting.
AdditionalRangesWhenQuiet(flag, ilb) == IF flag /\ dirty = {} THEN <<ilb.range>> ELSE <<>>

\* The additional source ranges as sync builds them: <<>> with the flag off,
\* else the one range ilbFirewallSrcRange returned.
AdditionalRanges(flag, ilb) == IF flag THEN <<ilb.range>> ELSE <<>>

\* fwc.hasSynced()
StoresAlwaysSynced(synced) == TRUE
StoresSynced(synced) == synced

\* A sync that takes no error of firewallPool.Sync for an XPN error.
NeverXPN(pool) == FALSE

\* err.(*FirewallXPNError): whether what firewallPool.Sync answered is an XPN
\* error.
AnyErrorIsXPN(pool) == pool # "ok"
IsFirewallXPNError(pool) == pool = "xpn"

\* Whether sync garbage-collects the firewall rule: len(gceIngresses) == 0.
AlwaysCollects(gceIngresses) == TRUE
NoMoreIngresses(gceIngresses) == Len(gceIngresses) = 0

\* One run of sync.  nodesOK, listOK, pool: how the node lister, the subnet
\* List call and firewallPool.Sync answer in this run.
sync(list, synced, flag, nodes, known, all, nodesOK, listOK, pool) ==
    LET gceIngresses == GceIngresses(list)
        negPorts == GatherEndpointPorts(gceIngresses, known)
        ilb == ilbFirewallSrcRange(gceIngresses, all, listOK)
        additionalRanges == AdditionalRanges(flag, ilb)
    IN IF ~StoresSynced(synced)
       THEN SyncOutcome("waiting for stores to sync", 0, "", {}, {}, <<>>, <<>>)
       ELSE IF NoMoreIngresses(gceIngresses)
       THEN SyncOutcome("", 1, "", {}, {}, <<>>, <<>>)
       ELSE IF ~nodesOK
       THEN SyncOutcome("node lister", 0, "", {}, {}, <<>>, <<>>)
       ELSE IF flag /\ ilb.err # ""
       THEN SyncOutcome(ilb.err, 0, "", {}, {}, <<>>, <<>>)
       ELSE IF pool = "ok"
       THEN SyncOutcome("", 0, pool, nodes, negPorts, additionalRanges, <<>>)
       ELSE IF IsFirewallXPNError(pool)
       THEN SyncOutcome("", 0, pool, nodes, negPorts, additionalRanges,
                        XPNEvents(gceIngresses))
       ELSE SyncOutcome("firewall sync", 0, pool, nodes, negPorts, additionalRanges, <<>>)

(***************************************************************************)
(* Firewall controller: actions.                                           *)
(***************************************************************************)
fwEnv == <<readyNodes, subnets, EnableL7Ilb, hasSynced>>

\* Event handlers run while the worker is idle or processing a key.
HandlersRun == fwPc \in {"idle", "processing"}

IngressHandler(ing) ==
    IF ~IsGCEIngress(ing) /\ ~IsGCEMultiClusterIngress(ing)
    THEN NoEnqueue
    ELSE Enqueue(EnqueueKey(ToString(ing.id)))

IngressAdd(i, ing) ==
    /\ HandlersRun
    /\ ~ingStore[i].present
    /\ ingStore' = [ingStore EXCEPT ![i] = ing]
    /\ IngressHandler(ing)
    /\ UNCHANGED <<svcStore, fwEnv, fwPc, lastSync>>
    /\ UNCHANGED notFw

IngressUpdate(i, cur) ==
    /\ HandlersRun
    /\ ingStore[i].present
    /\ ingStore' = [ingStore EXCEPT ![i] = cur]
    /\ IngressHandler(cur)
    /\ UNCHANGED <<svcStore, fwEnv, fwPc, lastSync>>
    /\ UNCHANGED notFw

IngressDelete(i) ==
    /\ HandlersRun
    /\ ingStore[i].present
    /\ ingStore' = [ingStore EXCEPT ![i] = NoIngress(i)]
    /\ IngressHandler(ingStore[i])
    /\ UNCHANGED <<svcStore, fwEnv, fwPc, lastSync>>
    /\ UNCHANGED notFw

\* A handler for which every service is referenced.
ServiceAlwaysReferenced(svc) == TRUE

\* operator.Ingresses(ctx.Ingresses().List()).ReferencesService(svc)
ServiceReferenced(svc) ==
    \E k \in 1..Len(IngressesList) : ReferencesService(IngressesList[k], svc)

ServiceAdd(svc) ==
    /\ HandlersRun
    /\ svc \notin svcStore
    /\ svcStore' = svcStore \cup {svc}
    /\ IF ServiceReferenced(svc) THEN Enqueue(EnqueueKey(svc)) ELSE NoEnqueue
    /\ UNCHANGED <<ingStore, fwEnv, fwPc, lastSync>>
    /\ UNCHANGED notFw

\* changed: whether the old and the new object differ (reflect.DeepEqual).
ServiceUpdate(svc, changed) ==
    /\ HandlersRun
    /\ svc \in svcStore
    /\ IF changed /\ ServiceReferenced(svc) THEN Enqueue(EnqueueKey(svc)) ELSE NoEnqueue
    /\ UNCHANGED <<ingStore, svcStore, fwEnv, fwPc, lastSync>>
    /\ UNCHANGED notFw

\* No handler is registered for service deletion.
ServiceDelete(svc) ==
    /\ HandlersRun
    /\ svc \in svcStore
    /\ svcStore' = svcStore \ {svc}
    /\ UNCHANGED <<ingStore, fwEnv, wq, dirty, processing, fwPc, lastSync>>
    /\ UNCHANGED notFw

CachesSynced ==
    /\ HandlersRun
    /\ ~hasSynced
    /\ hasSynced' = TRUE
    /\ UNCHANGED <<ingStore, svcStore, readyNodes, subnets, EnableL7Ilb,
                   wq, dirty, processing, fwPc, lastSync>>
    /\ UNCHANGED notFw

NodesChange(nodes) ==
    /\ HandlersRun
    /\ nodes # readyNodes
    /\ readyNodes' = nodes
    /\ UNCHANGED <<ingStore, svcStore, subnets, EnableL7Ilb, hasSynced,
                   wq, dirty, processing, fwPc, lastSync>>
    /\ UNCHANGED notFw

\* The worker takes the next key: workqueue.Get.
WorkerGet ==
    /\ fwPc = "idle"
    /\ wq # <<>>
    /\ wq' = Tail(wq)
    /\ processing' = processing \cup {Head(wq)}
    /\ dirty' = dirty \ {Head(wq)}
    /\ fwPc' = "processing"
    /\ UNCHANGED <<ingStore, svcStore, fwEnv, lastSync>>
    /\ UNCHANGED notFw

\* The worker runs sync on the key.
WorkerSync(nodesOK, listOK, pool) ==
    /\ fwPc = "processing"
    /\ lastSync' = sync(IngressesList, hasSynced, EnableL7Ilb, readyNodes, svcStore,
                        subnets, nodesOK, listOK, pool)
                   @@ [nodesOK |-> nodesOK, listOK |-> listOK]
    /\ fwPc' = "returned"
    /\ UNCHANGED <<ingStore, svcStore, fwEnv, wq, dirty, processing>>
    /\ UNCHANGED notFw

\* The worker handles sync's result: a failed key is added again, and the key
\* is marked done (workqueue.Done puts a dirty key back on the queue).
WorkerDone ==
    /\ fwPc = "returned"
    /\ LET key == CHOOSE k \in processing : TRUE
           d == IF lastSync.err # "" THEN dirty \cup {key} ELSE dirty
       IN /\ dirty' = d
          /\ processing' = processing \ {key}
          /\ wq' = IF key \in d THEN Append(wq, key) ELSE wq
    /\ lastSync' = NoSync
    /\ fwPc' = "idle"
    /\ UNCHANGED <<ingStore, svcStore, fwEnv>>
    /\ UNCHANGED notFw

FwInit ==
    /\ ingStore = [i \in IngressIds |-> NoIngress(i)]
    /\ svcStore = {}
    /\ readyNodes = {}
    /\ subnets \in SubnetConfigs
    /\ EnableL7Ilb \in BOOLEAN
    /\ hasSynced = FALSE
    /\ wq = <<>>
    /\ dirty = {}
    /\ processing = {}
    /\ fwPc = "idle"
    /\ lastSync = NoSync
    /\ DelQuiet
    /\ DiscQuiet
    /\ BeQuiet
    /\ RaceQuiet
    /\ LbQuiet
    /\ SrcQuiet
    /\ ConvQuiet
    /\ GenQuiet
    /\ FakeQuiet

FwNext ==
    \/ \E i \in IngressIds : \E ing \in IngressShapes(i) : IngressAdd(i, ing)
    \/ \E i \in IngressIds : \E ing \in IngressShapes(i) : IngressUpdate(i, ing)
    \/ \E i \in IngressIds : IngressDelete(i)
    \/ \E s \in Services : ServiceAdd(s)
    \/ \E s \in Services : \E changed \in BOOLEAN : ServiceUpdate(s, changed)
    \/ \E s \in Services : ServiceDelete(s)
    \/ CachesSynced
    \/ \E n \in NodeSets : NodesChange(n)
    \/ WorkerGet
    \/ \E nodesOK \in BOOLEAN, listOK \in BOOLEAN, pool \in PoolOutcomes :
          WorkerSync(nodesOK, listOK, pool)
    \/ WorkerDone

SpecFW == FwInit /\ [][FwNext]_vars

(***************************************************************************)
(* ILBSubnetSourceRange on its own: subnetworks are inserted into the      *)
(* cloud and the range is asked for, as TestILBSubnetSourceRange does.     *)
(***************************************************************************)
\* How many subnetworks the cloud may hold.
MaxSubnets == 3

OtherNetworkSubnet == Subnet(Region, "other-network", "ACTIVE",
                             "INTERNAL_HTTPS_LOAD_BALANCER", "10.7.0.0/24")
PrivateSubnet == Subnet(Region, ClusterNetwork, "", "PRIVATE", "10.128.0.0/20")

SubnetShapes ==
    {ActiveIlbSubnet, BackupIlbSubnet, OtherRegionSubnet, OtherNetworkSubnet, PrivateSubnet}

\* The list with a subnetwork put in after its first p elements.
InsertAt(list, p, subnet) ==
    SubSeq(list, 1, p) \o <<subnet>> \o SubSeq(list, p + 1, Len(list))

NoRangeCall == [called |-> FALSE, all |-> <<>>, listOK |-> TRUE, range |-> "", err |-> ""]

\* BetaSubnetworks().Insert(ctx, key, subnet)
SubnetworkInsert(p, subnet) ==
    /\ Len(subnets) < MaxSubnets
    /\ subnets' = InsertAt(subnets, p, subnet)
    /\ UNCHANGED srcRange
    /\ UNCHANGED notSrc

ILBSubnetSourceRangeCall(listOK) ==
    /\ LET r == ILBSubnetSourceRange(subnets, Region, listOK)
       IN srcRange' = [called |-> TRUE, all |-> subnets, listOK |-> listOK,
                       range |-> r.range, err |-> r.err]
    /\ UNCHANGED subnets
    /\ UNCHANGED notSrc

SrcInit ==
    /\ srcRange = NoRangeCall
    /\ FwQuiet
    /\ DelQuiet
    /\ DiscQuiet
    /\ BeQuiet
    /\ RaceQuiet
    /\ LbQuiet
    /\ ConvQuiet
    /\ GenQuiet
    /\ FakeQuiet

SrcNext ==
    \/ \E p \in 0..Len(subnets), subnet \in SubnetShapes : SubnetworkInsert(p, subnet)
    \/ \E listOK \in BOOLEAN : ILBSubnetSourceRangeCall(listOK)

SpecSrc == SrcInit /\ [][SrcNext]_vars

(***************************************************************************)
(* Deletion verification (GCLB.CheckResourceDeletion).                     *)
(***************************************************************************)
\* meta.Key: a name with a region (regional), a zone (zonal) or neither (global).
Key(name, region, zone) == [name |-> name, region |-> region, zone |-> zone]
GlobalKey(name) == Key(name, "", "")
RegionalKey(name, region) == Key(name, region, "")
ZonalKey(name, zone) == Key(name, "", zone)

Zone == "us-central1-a"

FrGlobal == GlobalKey("fr-http")
FrRegional == RegionalKey("fr-ilb", Region)
TpKey == GlobalKey("tp")
TpsKey == GlobalKey("tps")
UmKey == GlobalKey("um")
BsDefault == GlobalKey("k8s-be-default")
BsApp == GlobalKey("k8s-be-app")
NegKey == ZonalKey("neg", Zone)
IgKey == ZonalKey("ig", Zone)

\* A GCLB: for each kind the keys of its map (fuzz.GCLB).
Graph(fr, thp, thsp, um, bs, neg, ig) ==
    [ForwardingRule |-> fr, TargetHTTPProxy |-> thp, TargetHTTPSProxy |-> thsp,
     URLMap |-> um, BackendService |-> bs, NetworkEndpointGroup |-> neg,
     InstanceGroup |-> ig]

FullGraph == Graph({FrGlobal, FrRegional}, {TpKey}, {TpsKey}, {UmKey},
                   {BsDefault, BsApp}, {NegKey}, {IgKey})
HttpGraph == Graph({FrGlobal}, {TpKey}, {}, {UmKey}, {BsApp}, {NegKey}, {})
Graphs == {FullGraph, HttpGraph}

GraphKinds == <<"ForwardingRule", "TargetHTTPProxy", "TargetHTTPSProxy", "URLMap",
                "BackendService", "NetworkEndpointGroup", "InstanceGroup">>

\* The cloud services and the resources they may hold.
CloudEntry(service, key) == [service |-> service, key |-> key]

CloudEntries ==
    { CloudEntry("GlobalForwardingRules", FrGlobal),
      CloudEntry("ForwardingRules", FrRegional),
      CloudEntry("TargetHttpProxies", TpKey),
      CloudEntry("TargetHttpsProxies", TpsKey),
      CloudEntry("UrlMaps", UmKey),
      CloudEntry("BackendServices", BsDefault),
      CloudEntry("BackendServices", BsApp),
      CloudEntry("NetworkEndpointGroups", NegKey),
      CloudEntry("InstanceGroups", IgKey) }

\* What a Get answers: the object, a googleapi 404, or another error.
GetStatuses == {"present", "notfound", "error"}

\* c.<Service>().Get(ctx, &k)
CloudGet(cl, service, key) ==
    IF CloudEntry(service, key) \in DOMAIN cl
    THEN cl[CloudEntry(service, key)] ELSE "notfound"

\* The description a backend service carries.
DefaultBackendServiceName == "kube-system/default-http-backend"

BackendDescription(key) ==
    IF key = BsDefault
    THEN "{\"kubernetes.io/service-name\":\"kube-system/default-http-backend\"}"
    ELSE IF key = BsApp
    THEN "{\"kubernetes.io/service-name\":\"default/app\"}"
    ELSE ""

\* utils.DescriptionFromString: the description's JSON decoded; any other
\* text gives the empty description.
DescriptionFromString(str) ==
    IF str = "{\"kubernetes.io/service-name\":\"kube-system/default-http-backend\"}"
    THEN [ServiceName |-> "kube-system/default-http-backend"]
    ELSE IF str = "{\"kubernetes.io/service-name\":\"default/app\"}"
    THEN [ServiceName |-> "default/app"]
    ELSE [ServiceName |-> ""]

\* GCLBDeleteOptions, or no options (nil).
NilOptions == [isNil |-> TRUE, SkipDefaultBackend |-> FALSE]
DeleteOptions(skip) == [isNil |-> FALSE, SkipDefaultBackend |-> skip]
AllDeleteOptions == {NilOptions, DeleteOptions(TRUE), DeleteOptions(FALSE)}

\* The service CheckResourceDeletion asks for a key of a kind.
ServiceForGlobalOnly(kind, key) ==
    CASE kind = "ForwardingRule" -> "GlobalForwardingRules"
      [] kind = "TargetHTTPProxy" -> "TargetHttpProxies"
      [] kind = "TargetHTTPSProxy" -> "TargetHttpsProxies"
      [] kind = "URLMap" -> "UrlMaps"
      [] kind = "BackendService" -> "BackendServices"
      [] kind = "NetworkEndpointGroup" -> "NetworkEndpointGroups"

ServiceFor(kind, key) ==
    CASE kind = "ForwardingRule" ->
           IF key.region # "" THEN "ForwardingRules" ELSE "GlobalForwardingRules"
      [] kind = "TargetHTTPProxy" -> "TargetHttpProxies"
      [] kind = "TargetHTTPSProxy" -> "TargetHttpsProxies"
      [] kind = "URLMap" -> "UrlMaps"
      [] kind = "BackendService" -> "BackendServices"
      [] kind = "NetworkEndpointGroup" -> "NetworkEndpointGroups"

\* Whether a backend service that is still present is left out of the report.
SkipsBackendWhateverOptions(options, description) ==
    DescriptionFromString(description).ServiceName = DefaultBackendServiceName

SkipsBackend(options, description) ==
    /\ ~options.isNil
    /\ options.SkipDefaultBackend
    /\ DescriptionFromString(description).ServiceName = DefaultBackendServiceName

Resource(kind, key) == [kind |-> kind, key |-> key]
NoResource == Resource("", GlobalKey(""))

\* resources = append(resources, k)
CollectLatestOnly(resources, r) == <<r>>
Collect(resources, r) == Append(resources, r)

\* The outcome of a verification: "nil", "exist" (the combined error listing
\* resources), "geterror" (the error naming the resource whose Get failed) or
\* "panic"; "running" while the loops run.
Running(resources) == [status |-> "running", resources |-> resources, failed |-> NoResource]
Failed(status, st, r) == [status |-> status, resources |-> st.resources, failed |-> r]

RECURSIVE CheckKeys(_, _, _, _, _, _)
\* One of the loops "for k := range g.<Kind>", visiting the keys in the order
\* given.  apiErr: whether a failing Get returns a *googleapi.Error; the type
\* assertion panics on an error of another type.
CheckKeys(kind, keys, cl, options, apiErr, st) ==
    IF st.status # "running" \/ keys = <<>> THEN st
    ELSE LET k == Head(keys)
             got == CloudGet(cl, ServiceFor(kind, k), k)
             next ==
                 IF got = "error"
                 THEN IF apiErr
                      THEN Failed("geterror", st, Resource(kind, k))
                      ELSE Failed("panic", st, Resource(kind, k))
                 ELSE IF got = "notfound" THEN st
                 ELSE IF kind = "BackendService"
                         /\ SkipsBackend(options, BackendDescription(k))
                 THEN st
                 ELSE Running(Collect(st.resources, Resource(kind, k)))
         IN CheckKeys(kind, Tail(keys), cl, options, apiErr, next)

\* The end of a verification: the combined error when resources remain.
Finish(st, message) ==
    IF st.status # "running"
    THEN [status |-> st.status, resources |-> <<>>, failed |-> st.failed, message |-> ""]
    ELSE IF Len(st.resources) # 0
    THEN [status |-> "exist", resources |-> st.resources, failed |-> NoResource,
          message |-> message]
    ELSE [status |-> "nil", resources |-> <<>>, failed |-> NoResource, message |-> ""]

\* GCLB.CheckResourceDeletion; ord gives, per kind, the order in which the map
\* of that kind is iterated.
CheckResourceDeletion(g, cl, options, ord, apiErr) ==
    LET s1 == CheckKeys("ForwardingRule", ord.ForwardingRule, cl, options, apiErr,
                        Running(<<>>))
        s2 == CheckKeys("TargetHTTPProxy", ord.TargetHTTPProxy, cl, options, apiErr, s1)
        s3 == CheckKeys("TargetHTTPSProxy", ord.TargetHTTPSProxy, cl, options, apiErr, s2)
        s4 == CheckKeys("URLMap", ord.URLMap, cl, options, apiErr, s3)
        s5 == CheckKeys("BackendService", ord.BackendService, cl, options, apiErr, s4)
        s6 == CheckKeys("NetworkEndpointGroup", ord.NetworkEndpointGroup, cl, options,
                        apiErr, s5)
    IN Finish(s6, "resources still exist")

RECURSIVE CheckNEGKeys(_, _, _, _)
\* The loop of CheckNEGDeletion over g.NetworkEndpointGroup; a failing Get's
\* error is returned as it is (status "err").
CheckNEGKeys(keys, cl, apiErr, st) ==
    IF st.status # "running" \/ keys = <<>> THEN st
    ELSE LET k == Head(keys)
             got == CloudGet(cl, "NetworkEndpointGroups", k)
             next ==
                 IF got = "error"
                 THEN IF apiErr
                      THEN Failed("err", st, Resource("NetworkEndpointGroup", k))
                      ELSE Failed("panic", st, Resource("NetworkEndpointGroup", k))
                 ELSE IF got = "notfound" THEN st
                 ELSE Running(Collect(st.resources, Resource("NetworkEndpointGroup", k)))
         IN CheckNEGKeys(Tail(keys), cl, apiErr, next)

\* A check of the NEGs that verifies the whole graph.
CheckNEGDeletionOfWholeGraph(g, cl, options, ord, apiErr) ==
    CheckResourceDeletion(g, cl, options, ord, apiErr)

\* GCLB.CheckNEGDeletion
CheckNEGDeletion(g, cl, options, ord, apiErr) ==
    Finish(CheckNEGKeys(ord.NetworkEndpointGroup, cl, apiErr, Running(<<>>)),
           "NEGs still exist")

RECURSIVE Orders(_)
\* The orders in which a map with key set S may be iterated.
Orders(S) ==
    IF S = {} THEN {<<>>}
    ELSE UNION {{<<x>> \o t : t \in Orders(S \ {x})} : x \in S}

IterationOrders(g) ==
    [ForwardingRule : Orders(g.ForwardingRule),
     TargetHTTPProxy : Orders(g.TargetHTTPProxy),
     TargetHTTPSProxy : Orders(g.TargetHTTPSProxy),
     URLMap : Orders(g.URLMap),
     BackendService : Orders(g.BackendService),
     NetworkEndpointGroup : Orders(g.NetworkEndpointGroup),
     InstanceGroup : Orders(g.InstanceGroup)]

\* options: the options of a call of CheckResourceDeletion (CheckNEGDeletion
\* never reads its options).  negOrder, negApiErr: for a call of
\* CheckNEGDeletion, the order in which it iterated the NEGs and whether a
\* failing Get returned a *googleapi.Error.
NoResult == [status |-> "none", resources |-> <<>>, failed |-> NoResource,
             message |-> "", call |-> "", options |-> NilOptions,
             negOrder |-> <<>>, negApiErr |-> TRUE]

CheckResourceDeletionCall(options, ord, apiErr) ==
    /\ delPc = "idle"
    /\ LET r == CheckResourceDeletion(gclb, cloud, options, ord, apiErr)
       IN delResult' = [status |-> r.status, resources |-> r.resources,
                        failed |-> r.failed, message |-> r.message,
                        call |-> "CheckResourceDeletion", options |-> options,
                        negOrder |-> <<>>, negApiErr |-> TRUE]
    /\ delPc' = "returned"
    /\ UNCHANGED <<cloud, gclb>>
    /\ UNCHANGED notDel

CheckNEGDeletionCall(options, ord, apiErr) ==
    /\ delPc = "idle"
    /\ LET r == CheckNEGDeletion(gclb, cloud, options, ord, apiErr)
       IN delResult' = [status |-> r.status, resources |-> r.resources,
                        failed |-> r.failed, message |-> r.message,
                        call |-> "CheckNEGDeletion", options |-> NilOptions,
                        negOrder |-> ord.NetworkEndpointGroup, negApiErr |-> apiErr]
    /\ delPc' = "returned"
    /\ UNCHANGED <<cloud, gclb>>
    /\ UNCHANGED notDel

DelInit ==
    /\ cloud \in [CloudEntries -> GetStatuses]
    /\ cloud[CloudEntry("InstanceGroups", IgKey)] # "error"
    /\ Cardinality({e \in CloudEntries : cloud[e] = "error"}) <= MaxGetErrors
    /\ gclb \in Graphs
    /\ delPc = "idle"
    /\ delResult = NoResult
    /\ FwQuiet
    /\ DiscQuiet
    /\ BeQuiet
    /\ RaceQuiet
    /\ LbQuiet
    /\ SrcQuiet
    /\ ConvQuiet
    /\ GenQuiet
    /\ FakeQuiet

DelNext ==
    \/ \E options \in AllDeleteOptions, ord \in IterationOrders(gclb), apiErr \in BOOLEAN :
          CheckResourceDeletionCall(options, ord, apiErr)
    \/ \E options \in AllDeleteOptions, ord \in IterationOrders(gclb), apiErr \in BOOLEAN :
          CheckNEGDeletionCall(options, ord, apiErr)

SpecDel == DelInit /\ [][DelNext]_vars

(***************************************************************************)
(* Firewall controller: properties.                                        *)
(***************************************************************************)
\* The sync attempt in progress has returned and the worker has not yet
\* handled its result; the stores are as the attempt saw them.
SyncReturned == fwPc = "returned" /\ lastSync.ran

ManagedIds == {i \in IngressIds : ingStore[i].present /\ ingStore[i].gce}

EventsFor(i) ==
    Len(SelectSeq(lastSync.events, LAMBDA e : e.ing = i /\ e.reason = "XPN"))

\* C1: a sync with synced caches and no managed ingress calls the pool's GC,
\* does not call the pool's Sync and returns success.
C1_NoIngressGC ==
    (SyncReturned /\ hasSynced /\ ManagedIds = {})
        => (lastSync.gc = 1 /\ lastSync.sync = 0 /\ lastSync.err = "")

C1_Witness ==
    /\ SyncReturned /\ hasSynced /\ ManagedIds = {}
    /\ \E i \in IngressIds : ingStore[i].present
    /\ lastSync.gc = 1

\* C2: when firewallPool.Sync fails with an XPN error, sync returns nil and
\* records exactly one XPN event against each managed ingress that has not
\* opted out, and no event against any other ingress.
C2_XPNEvents ==
    (SyncReturned /\ lastSync.pool = "xpn")
        => /\ lastSync.err = ""
           /\ \A i \in IngressIds :
                 EventsFor(i) = IF i \in ManagedIds /\ ~ingStore[i].suppress
                                THEN 1 ELSE 0
           /\ Len(lastSync.events) = Cardinality({i \in ManagedIds : ~ingStore[i].suppress})

C2_Witness ==
    /\ SyncReturned /\ lastSync.pool = "xpn"
    /\ \E i, j \in ManagedIds : ingStore[i].suppress /\ ~ingStore[j].suppress
    /\ Len(lastSync.events) = 1

\* C8: the extra source ranges passed to firewallPool.Sync hold the region's
\* ILB subnet CIDR exactly when the L7-ILB flag is on and a managed ingress is
\* an L7-ILB ingress, and are empty in every other case.
C8_ExtraRanges ==
    (SyncReturned /\ lastSync.sync = 1)
        => IF EnableL7Ilb /\ \E i \in ManagedIds : ingStore[i].ilb
           THEN lastSync.additionalRanges = <<ActiveIlbSubnet.cidr>>
           ELSE lastSync.additionalRanges = <<>>

\* C10: every handler enqueues the one sentinel key, so at most one sync is
\* pending and at most one executes, whatever events arrive.
C10_Coalesced ==
    /\ Len(wq) <= 1
    /\ Cardinality(dirty) <= 1
    /\ Cardinality(processing) <= 1
    /\ \A k \in dirty \cup processing \cup {wq[n] : n \in 1..Len(wq)} : k = queueKey

C10_Witness ==
    /\ dirty = {queueKey}
    /\ processing = {queueKey}
    /\ Cardinality({i \in IngressIds : ingStore[i].present}) = NumIngresses
    /\ svcStore = Services

(***************************************************************************)
(* Deletion verification: properties.                                      *)
(***************************************************************************)
DelReturned == delPc = "returned" /\ delResult.call = "CheckResourceDeletion"

\* Every resource the graph records, and those of the kinds other than
\* instance groups.
GraphResources ==
    UNION {{Resource(GraphKinds[n], k) : k \in gclb[GraphKinds[n]]} : n \in 1..Len(GraphKinds)}
VerifiedResources == {r \in GraphResources : r.kind # "InstanceGroup"}

KindIndex(kind) == CHOOSE n \in 1..Len(GraphKinds) : GraphKinds[n] = kind

\* What the cloud answers for a resource at the scope its key records.
StatusAtRecordedScope(r) ==
    LET service ==
          CASE r.kind = "ForwardingRule" ->
                 IF r.key.region = "" THEN "GlobalForwardingRules" ELSE "ForwardingRules"
            [] r.kind = "TargetHTTPProxy" -> "TargetHttpProxies"
            [] r.kind = "TargetHTTPSProxy" -> "TargetHttpsProxies"
            [] r.kind = "URLMap" -> "UrlMaps"
            [] r.kind = "BackendService" -> "BackendServices"
            [] r.kind = "NetworkEndpointGroup" -> "NetworkEndpointGroups"
            [] r.kind = "InstanceGroup" -> "InstanceGroups"
    IN cloud[CloudEntry(service, r.key)]

DefaultBackendResource == Resource("BackendService", BsDefault)

\* The shared default backend, which the options of the call let outlive the
\* load balancer.
SkippedDefaultBackend(r) ==
    /\ r = DefaultBackendResource
    /\ ~delResult.options.isNil
    /\ delResult.options.SkipDefaultBackend

StillPresent(rs) ==
    {r \in rs : StatusAtRecordedScope(r) = "present" /\ ~SkippedDefaultBackend(r)}
GetFails(rs) == {r \in rs : StatusAtRecordedScope(r) = "error"}

Reported == {delResult.resources[n] : n \in 1..Len(delResult.resources)}

OnlyDefaultBackendLeft ==
    /\ DelReturned
    /\ DefaultBackendResource \in GraphResources
    /\ StatusAtRecordedScope(DefaultBackendResource) = "present"
    /\ \A r \in GraphResources \ {DefaultBackendResource} :
          StatusAtRecordedScope(r) = "notfound"

\* C4: with every other resource gone and the shared default backend still
\* there, the check returns nil under SkipDefaultBackend and an error naming
\* that backend service otherwise (option false, or no options).
C4_SkipDefaultBackend ==
    OnlyDefaultBackendLeft
        => IF ~delResult.options.isNil /\ delResult.options.SkipDefaultBackend
           THEN delResult.status = "nil"
           ELSE /\ delResult.status = "exist"
                /\ delResult.resources = <<DefaultBackendResource>>

C4_Witness ==
    /\ OnlyDefaultBackendLeft
    /\ delResult.options = DeleteOptions(TRUE)
    /\ delResult.status = "nil"

\* C5 as claimed: every failure among the resources the check loops over, a
\* resource still present or a Get failing with another error, is reported in
\* the one combined error.
C5_AllFailuresReported ==
    (DelReturned /\ StillPresent(VerifiedResources) \cup GetFails(VerifiedResources) # {})
        => /\ delResult.status = "exist"
           /\ Reported = StillPresent(VerifiedResources) \cup GetFails(VerifiedResources)

\* C5 as amended: while no Get fails with an error other than not-found, the
\* check visits every forwarding rule, target proxy, URL map, backend service
\* and NEG of the graph and reports all that are still present in one
\* combined error; a Get failing with another error ends the check at once
\* with an error (or a panic) about that resource alone, in the first kind
\* that has such a failure.
C5_PresentCollected ==
    DelReturned
        => IF GetFails(VerifiedResources) = {}
           THEN IF StillPresent(VerifiedResources) = {}
                THEN delResult.status = "nil"
                ELSE /\ delResult.status = "exist"
                     /\ Reported = StillPresent(VerifiedResources)
                     /\ Len(delResult.resources) = Cardinality(Reported)
           ELSE /\ delResult.status \in {"geterror", "panic"}
                /\ delResult.failed \in GetFails(VerifiedResources)
                /\ \A r \in GetFails(VerifiedResources) :
                      KindIndex(delResult.failed.kind) <= KindIndex(r.kind)
                /\ delResult.resources = <<>>

C5_Witness ==
    /\ DelReturned
    /\ delResult.status = "exist"
    /\ \E a, b \in Reported : KindIndex(a.kind) < KindIndex(b.kind)
    /\ Cardinality(Reported) >= 3

NumRules == 2
RuleIds == 1..NumRules

Vip == "1.2.3.4"
OtherVip == "5.6.7.8"
Vips == {Vip, OtherVip}

Tp2Key == GlobalKey("tp-2")
UmOtherKey == GlobalKey("um-other")

\* A resource URL, as its path segments.
ResourceURL(resource, key) ==
    IF key.zone # "" THEN <<"projects", "p", "zones", key.zone, resource, key.name>>
    ELSE IF key.region # "" THEN <<"projects", "p", "regions", key.region, resource, key.name>>
    ELSE <<"projects", "p", "global", resource, key.name>>

BadURL == <<"tp">>

\* cloud.ParseResourceURL: the resource type and the key a URL names.
ParseResourceURL(url) ==
    IF Len(url) = 5 /\ url[1] = "projects" /\ url[3] = "global"
    THEN [ok |-> TRUE, Resource |-> url[4], Key |-> GlobalKey(url[5])]
    ELSE IF Len(url) = 6 /\ url[1] = "projects" /\ url[3] = "zones"
    THEN [ok |-> TRUE, Resource |-> url[5], Key |-> ZonalKey(url[6], url[4])]
    ELSE IF Len(url) = 6 /\ url[1] = "projects" /\ url[3] = "regions"
    THEN [ok |-> TRUE, Resource |-> url[5], Key |-> RegionalKey(url[6], url[4])]
    ELSE [ok |-> FALSE, Resource |-> "", Key |-> GlobalKey("")]

NegResourceType == "networkEndpointGroup"
IgResourceType == "instanceGroup"

\* A match that takes every group for a group of the type.
ContainsAlways(group, resourceType) == TRUE

\* strings.Contains(group, resourceType)
Contains(group, resourceType) ==
    \E n \in 1..Len(group) :
        \/ resourceType = NegResourceType /\ group[n] = "networkEndpointGroups"
        \/ resourceType = IgResourceType /\ group[n] = "instanceGroups"

\* compute.ForwardingRule
ForwardingRule(name, ip, target) ==
    [Name |-> name, IPAddress |-> ip, Target |-> target, Region |-> ""]

\* A forwarding rule of a region (of an internal load balancer).
RegionalForwardingRule(name, ip, target, region) ==
    [Name |-> name, IPAddress |-> ip, Target |-> target, Region |-> region]

RuleTargets ==
    { ResourceURL("targetHttpProxies", TpKey),
      ResourceURL("targetHttpProxies", Tp2Key),
      ResourceURL("targetHttpsProxies", TpsKey),
      ResourceURL("targetTcpProxies", GlobalKey("tcp")),
      BadURL }

RuleNames == [i \in 1..3 |-> <<"fr-1", "fr-2", "fr-3">>[i]]
RuleName(i) == IF i \in DOMAIN RuleNames THEN RuleNames[i] ELSE "fr-n"

RulesOf(i) ==
    {ForwardingRule(RuleName(i), Vip, t) : t \in RuleTargets}
    \cup {ForwardingRule(RuleName(i), OtherVip, ResourceURL("targetHttpProxies", Tp2Key))}
    \cup {RegionalForwardingRule(RuleName(i), Vip,
                                 ResourceURL("targetHttpProxies", TpKey), Region)}

\* The target proxies of the cloud and the URL maps they may reference.
ProxyEntries ==
    { CloudEntry("TargetHttpProxies", TpKey),
      CloudEntry("TargetHttpProxies", Tp2Key),
      CloudEntry("TargetHttpsProxies", TpsKey) }

ProxyUrlMaps ==
    { f \in [ProxyEntries -> {UmKey, UmOtherKey}] :
        /\ f[CloudEntry("TargetHttpProxies", TpKey)] = UmKey
        /\ f[CloudEntry("TargetHttpProxies", Tp2Key)] = UmOtherKey }

\* The calls of discovery that may fail.
NoFailure == CloudEntry("", GlobalKey(""))
ListFailure == CloudEntry("GlobalForwardingRules", GlobalKey(""))

DiscFailures ==
    {NoFailure, ListFailure} \cup ProxyEntries \cup
    { CloudEntry("UrlMaps", UmKey),
      CloudEntry("BackendServices", BsApp),
      CloudEntry("BetaBackendServices", BsDefault),
      CloudEntry("NetworkEndpointGroups", NegKey),
      CloudEntry("InstanceGroups", IgKey) }

\* c.<Service>().Get(ctx, key): whether it answers the object.
GetOK(failure, service, key) == failure # CloudEntry(service, key)

\* compute.UrlMap of a key.
UrlMapObject(key) ==
    IF key = UmKey
    THEN [DefaultService |-> ResourceURL("backendServices", BsDefault),
          PathMatchers |->
              << [DefaultService |-> ResourceURL("backendServices", BsDefault),
                  PathRules |-> <<[Service |-> ResourceURL("backendServices", BsApp)]>>] >>]
    ELSE [DefaultService |-> ResourceURL("backendServices", BsDefault),
          PathMatchers |-> <<>>]

\* compute.BackendService of a key: its backends' groups.
BackendGroups(key) ==
    IF key = BsApp
    THEN <<ResourceURL("networkEndpointGroups", NegKey), ResourceURL("instanceGroups", IgKey)>>
    ELSE <<ResourceURL("instanceGroups", IgKey)>>

hasAlphaResource(resourceType, validators) == FALSE
hasBetaResource(resourceType, validators) == FALSE

\* NewGCLB
NewGCLB == Graph({}, {}, {}, {}, {}, {}, {})

\* What GCLBForVIP returns: a graph and no error, or no graph and an error;
\* or it panics.
Discovered(g) == [status |-> "ok", err |-> "", gclb |-> {g}]
DiscError(err) == [status |-> "error", err |-> err, gclb |-> {}]
DiscPanic == [status |-> "panic", err |-> "", gclb |-> {}]

\* The rules of the VIP, in the order the list gave them (lines 658-663).
RulesOfVIP(allGFRs, vip) == SelectSeq(allGFRs, LAMBDA gfr : gfr.IPAddress = vip)

\* The check of a proxy's URL map against the one found first.
NeverMismatch(urlMapKey, key) == FALSE

UrlMapMismatch(urlMapKey, key) == urlMapKey # {key}

\* The state of the walk: the graph so far, the URL map key found (none: {}),
\* and the error that ended it ("" while it runs).
Walk(g, urlMapKey, err) == [gclb |-> g, urlMapKey |-> urlMapKey, err |-> err]

\* One round of the loop over the rules of the VIP.
VisitRule(gfr, failure, pum, validators, st) ==
    LET frKey == GlobalKey(gfr.Name)
        g1 == [st.gclb EXCEPT !.ForwardingRule = @ \cup {frKey}]
        resID == ParseResourceURL(gfr.Target)
        http == resID.Resource = "targetHttpProxies"
        service == IF http THEN "TargetHttpProxies" ELSE "TargetHttpsProxies"
        kind == IF http THEN "TargetHTTPProxy" ELSE "TargetHTTPSProxy"
        g2 == [g1 EXCEPT ![kind] = @ \cup {resID.Key}]
        urlMapResID == ParseResourceURL(ResourceURL("urlMaps", pum[CloudEntry(service, resID.Key)]))
        urlMapKey == IF st.urlMapKey = {} THEN {urlMapResID.Key} ELSE st.urlMapKey
    IN IF hasAlphaResource("forwardingRule", validators)
          /\ ~GetOK(failure, "AlphaForwardingRules", frKey)
       THEN Walk(g1, st.urlMapKey, "get alpha forwarding rule")
       ELSE IF hasBetaResource("forwardingRule", validators)
       THEN Walk(g1, st.urlMapKey, "unsupported forwardingRule version")
       ELSE IF ~resID.ok
       THEN Walk(g1, st.urlMapKey, "parse target")
       ELSE IF resID.Resource \notin {"targetHttpProxies", "targetHttpsProxies"}
       THEN Walk(g1, st.urlMapKey, "unhandled resource")
       ELSE IF ~GetOK(failure, service, resID.Key)
       THEN Walk(g1, st.urlMapKey, "get target proxy")
       ELSE IF hasAlphaResource(kind, validators) \/ hasBetaResource(kind, validators)
       THEN Walk(g2, st.urlMapKey, "unsupported target proxy version")
       ELSE IF ~urlMapResID.ok
       THEN Walk(g2, st.urlMapKey, "parse urlmap")
       ELSE IF UrlMapMismatch(urlMapKey, urlMapResID.Key)
       THEN Walk(g2, urlMapKey, "references are not the same")
       ELSE Walk(g2, urlMapKey, "")

RECURSIVE VisitRules(_, _, _, _, _)
VisitRules(gfrs, failure, pum, validators, st) ==
    IF gfrs = <<>> \/ st.err # "" THEN st
    ELSE VisitRules(Tail(gfrs), failure, pum, validators,
                    VisitRule(Head(gfrs), failure, pum, validators, st))

\* URLMap => BackendService(s): the keys, in order (lines 751-772).
RECURSIVE PathMatcherServices(_)
PathMatcherServices(pms) ==
    IF pms = <<>> THEN <<>>
    ELSE <<Head(pms).DefaultService>>
         \o [n \in 1..Len(Head(pms).PathRules) |-> Head(pms).PathRules[n].Service]
         \o PathMatcherServices(Tail(pms))

DefaultServiceOnly(urlMap) == <<urlMap.DefaultService>>

BackendServiceURLs(urlMap) == <<urlMap.DefaultService>> \o PathMatcherServices(urlMap.PathMatchers)

\* The groups of the backend services of the keys, in order (lines 800-818).
RECURSIVE GroupsOf(_)
GroupsOf(bsKeys) ==
    IF bsKeys = <<>> THEN <<>>
    ELSE BackendGroups(Head(bsKeys)) \o GroupsOf(Tail(bsKeys))

GroupKeys(groups, resourceType) ==
    LET of == SelectSeq(groups, LAMBDA group : Contains(group, resourceType))
    IN [n \in 1..Len(of) |-> ParseResourceURL(of[n]).Key]

Elements(seq) == {seq[n] : n \in 1..Len(seq)}

\* The part of GCLBForVIP after the loop over the rules (lines 740-869).
ResolveBackends(st, failure, validators, nilKeyPanics) ==
    IF st.urlMapKey = {}
    THEN IF nilKeyPanics THEN DiscPanic ELSE DiscError("get url map")
    ELSE
    LET urlMapKey == CHOOSE k \in st.urlMapKey : TRUE
        urlMap == UrlMapObject(urlMapKey)
        g1 == [st.gclb EXCEPT !.URLMap = @ \cup {urlMapKey}]
        bsURLs == BackendServiceURLs(urlMap)
        bsKeys == [n \in 1..Len(bsURLs) |-> ParseResourceURL(bsURLs[n]).Key]
        groups == GroupsOf(bsKeys)
        negKeys == GroupKeys(groups, NegResourceType)
        igKeys == GroupKeys(groups, IgResourceType)
        beta == IF hasAlphaResource("backendService", validators)
                THEN "AlphaBackendServices" ELSE "BetaBackendServices"
    IN IF ~GetOK(failure, "UrlMaps", urlMapKey)
       THEN DiscError("get url map")
       ELSE IF hasAlphaResource("urlMap", validators) \/ hasBetaResource("urlMap", validators)
       THEN DiscError("unsupported urlMap version")
       ELSE IF \E n \in 1..Len(bsURLs) : ~ParseResourceURL(bsURLs[n]).ok
       THEN DiscError("parse backend service")
       ELSE IF \E k \in Elements(bsKeys) : ~GetOK(failure, "BackendServices", k)
       THEN DiscError("get backend service")
       ELSE IF \E k \in Elements(bsKeys) : ~GetOK(failure, beta, k)
       THEN DiscError("get backend service groups")
       ELSE IF \E k \in Elements(negKeys) : ~GetOK(failure, "NetworkEndpointGroups", k)
       THEN DiscError("get network endpoint group")
       ELSE IF \E k \in Elements(igKeys) : ~GetOK(failure, "InstanceGroups", k)
       THEN DiscError("get instance group")
       ELSE Discovered([g1 EXCEPT !.BackendService = Elements(bsKeys),
                                  !.NetworkEndpointGroup = Elements(negKeys),
                                  !.InstanceGroup = Elements(igKeys)])

\* A discovery that ignores the failure of a step and returns what it found.
GCLBForVIPKeepingPartial(allGFRs, failure, pum, vip, validators, nilKeyPanics) ==
    LET st == VisitRules(RulesOfVIP(allGFRs, vip), NoFailure, pum, validators,
                         Walk(NewGCLB, {}, ""))
        r == ResolveBackends(st, NoFailure, validators, nilKeyPanics)
    IN IF st.err # "" \/ r.status # "ok" THEN Discovered(st.gclb) ELSE r

\* GCLBForVIP(ctx, c, vip, validators), the list having answered allGFRs.
GCLBForVIP(allGFRs, failure, pum, vip, validators, nilKeyPanics) ==
    IF failure = ListFailure THEN DiscError("list forwarding rules")
    ELSE LET st == VisitRules(RulesOfVIP(allGFRs, vip), failure, pum, validators,
                              Walk(NewGCLB, {}, ""))
         IN IF st.err # "" THEN DiscError(st.err)
            ELSE ResolveBackends(st, failure, validators, nilKeyPanics)

\* The projections the nodes of a returned graph hold: GA always, alpha and
\* beta where the code fetches them.
Projection(kind, key, version) == [kind |-> kind, key |-> key, version |-> version]

ProjectionsOf(kind, keys, resourceType, validators, fetched) ==
    {Projection(kind, k, "ga") : k \in keys}
    \cup {Projection(kind, k, "alpha") :
            k \in IF "alpha" \in fetched /\ hasAlphaResource(resourceType, validators)
                  THEN keys ELSE {}}
    \cup {Projection(kind, k, "beta") :
            k \in IF "beta" \in fetched /\ hasBetaResource(resourceType, validators)
                  THEN keys ELSE {}}

Projections(g, validators) ==
    ProjectionsOf("ForwardingRule", g.ForwardingRule, "forwardingRule", validators, {"alpha"})
    \cup ProjectionsOf("TargetHTTPProxy", g.TargetHTTPProxy, "targetHttpProxy", validators, {})
    \cup ProjectionsOf("TargetHTTPSProxy", g.TargetHTTPSProxy, "targetHttpsProxy", validators, {})
    \cup ProjectionsOf("URLMap", g.URLMap, "urlMap", validators, {})
    \cup ProjectionsOf("BackendService", g.BackendService, "backendService", validators,
                       {"alpha", "beta"})
    \cup ProjectionsOf("NetworkEndpointGroup", g.NetworkEndpointGroup, NegResourceType,
                       validators, {"alpha", "beta"})
    \cup ProjectionsOf("InstanceGroup", g.InstanceGroup, IgResourceType, validators, {})

NoDiscovery == [status |-> "none", err |-> "", gclb |-> {}, vip |-> "", order |-> <<>>,
                validators |-> <<>>, projections |-> {}]

\* FeatureValidator: the version it needs each kind of resource at
\* (ResourceVersions) and its scope (Scope).
Validator(name, versions, scope) ==
    [Name |-> name, ResourceVersions |-> versions, Scope |-> scope]

AllAt(version) ==
    [ForwardingRule |-> version, TargetHTTPProxy |-> version, TargetHTTPSProxy |-> version,
     URLMap |-> version, BackendService |-> version, NetworkEndpointGroup |-> version,
     InstanceGroup |-> version]

NegValidator ==
    Validator("neg", [AllAt("ga") EXCEPT !.BackendService = "beta",
                                         !.NetworkEndpointGroup = "beta"], "global")
IlbValidator ==
    Validator("ilb", [AllAt("alpha") EXCEPT !.NetworkEndpointGroup = "ga",
                                            !.InstanceGroup = "ga"], "regional")

Validators == {<<>>, <<NegValidator>>, <<NegValidator, IlbValidator>>}

\* c.GlobalForwardingRules().List: the global rules, in the list's order.
GlobalForwardingRulesList(store, order) ==
    SelectSeq([n \in 1..Len(order) |-> store[order[n]]], LAMBDA gfr : gfr.Region = "")

GCLBForVIPCall(vip, order, validators, nilKeyPanics) ==
    /\ discPc = "idle"
    /\ LET allGFRs == GlobalForwardingRulesList(gfrStore, order)
           r == GCLBForVIP(allGFRs, discFailure, proxyUrlMap, vip, validators, nilKeyPanics)
       IN discResult' = [status |-> r.status, err |-> r.err, gclb |-> r.gclb,
                         vip |-> vip, order |-> order, validators |-> validators,
                         projections |-> UNION {Projections(g, validators) : g \in r.gclb}]
    /\ discPc' = "returned"
    /\ UNCHANGED <<gfrStore, proxyUrlMap, discFailure>>
    /\ UNCHANGED notDisc

DiscInit ==
    /\ gfrStore \in {f \in [RuleIds -> UNION {RulesOf(i) : i \in RuleIds}] :
                        \A i \in RuleIds : f[i] \in RulesOf(i)}
    /\ proxyUrlMap \in ProxyUrlMaps
    /\ discFailure \in DiscFailures
    /\ discPc = "idle"
    /\ discResult = NoDiscovery
    /\ FwQuiet
    /\ DelQuiet
    /\ BeQuiet
    /\ RaceQuiet
    /\ LbQuiet
    /\ SrcQuiet
    /\ ConvQuiet
    /\ GenQuiet
    /\ FakeQuiet

DiscNext ==
    \/ \E order \in Orders(RuleIds), validators \in Validators, nilKeyPanics \in BOOLEAN :
          GCLBForVIPCall(Vip, order, validators, nilKeyPanics)

SpecDisc == DiscInit /\ [][DiscNext]_vars

(***************************************************************************)
(* GCLB discovery: properties.                                             *)
(***************************************************************************)
DiscReturned == discPc = "returned"

\* The URL map the cloud's target proxy behind a rule references, if the
\* rule's target is an HTTP or HTTPS target proxy.
ProxyOfRule(i) ==
    {e \in ProxyEntries :
        \/ /\ e.service = "TargetHttpProxies"
           /\ gfrStore[i].Target = <<"projects", "p", "global", "targetHttpProxies", e.key.name>>
        \/ /\ e.service = "TargetHttpsProxies"
           /\ gfrStore[i].Target = <<"projects", "p", "global", "targetHttpsProxies", e.key.name>>}

UrlMapsOfVIP(vip) ==
    {proxyUrlMap[e] :
        e \in UNION {ProxyOfRule(i) :
                        i \in {j \in RuleIds : /\ gfrStore[j].IPAddress = vip
                                                /\ gfrStore[j].Region = ""}}}

\* C3: when two forwarding rules of the VIP lead to target proxies (HTTP or
\* HTTPS) whose URL-map keys differ, GCLBForVIP returns an error and no graph,
\* whatever the order of the rules; a graph it returns holds the one URL map
\* that all of its target proxies reference.
C3_UrlMapMismatch ==
    DiscReturned
        => /\ Cardinality(UrlMapsOfVIP(discResult.vip)) >= 2
              => discResult.status = "error" /\ discResult.gclb = {}
           /\ \A g \in discResult.gclb :
                 /\ Cardinality(g.URLMap) = 1
                 /\ \A k \in g.TargetHTTPProxy :
                       {proxyUrlMap[CloudEntry("TargetHttpProxies", k)]} = g.URLMap
                 /\ \A k \in g.TargetHTTPSProxy :
                       {proxyUrlMap[CloudEntry("TargetHttpsProxies", k)]} = g.URLMap

C3_Witness ==
    /\ DiscReturned
    /\ Cardinality(UrlMapsOfVIP(discResult.vip)) >= 2
    /\ discFailure = NoFailure
    /\ discResult.err = "references are not the same"
    /\ discResult.order = <<2, 1>>
    /\ ProxyOfRule(1) = {CloudEntry("TargetHttpProxies", TpKey)}
    /\ ProxyOfRule(2) = {CloudEntry("TargetHttpsProxies", TpsKey)}

(***************************************************************************)
(* The backend pool (Backends) over the composite backend service.         *)
(***************************************************************************)
\* meta.Version
VersionGA == "ga"
VersionBeta == "beta"
VersionAlpha == "alpha"
Versions == {VersionGA, VersionBeta, VersionAlpha}

\* The features a backend service may record in its description, and the
\* API version each needs.
FeatureNEG == "NEG"
FeatureSecurityPolicy == "SecurityPolicy"
FeatureL7ILB == "L7ILB"
FeatureOrder == <<FeatureNEG, FeatureSecurityPolicy, FeatureL7ILB>>
Features == {FeatureOrder[n] : n \in 1..Len(FeatureOrder)}

featureToVersion(feature) ==
    CASE feature = FeatureL7ILB -> VersionAlpha
      [] feature = FeatureSecurityPolicy -> VersionBeta
      [] OTHER -> VersionGA

\* features.IsLowerVersion(v1, v2): v1 is a lower (less stable) version than
\* v2; alpha is lower than beta, beta lower than GA.
versionToLevel(v) ==
    CASE v = VersionAlpha -> 0
      [] v = VersionBeta -> 1
      [] OTHER -> 2

IsLowerVersion(v1, v2) == versionToLevel(v1) < versionToLevel(v2)

\* A version taken from the last feature of the list alone.
VersionOfLastFeature(features) ==
    IF features = <<>> THEN VersionGA ELSE featureToVersion(features[Len(features)])

\* The lowest version the features of a list need; GA for none.
RECURSIVE VersionFromFeatures(_)
VersionFromFeatures(features) ==
    IF features = <<>> THEN VersionGA
    ELSE LET rest == VersionFromFeatures(Tail(features))
             v == featureToVersion(Head(features))
         IN IF IsLowerVersion(v, rest) THEN v ELSE rest

\* A description: the text of the service name and the feature list.  The
\* text of a description is its list of words, the features after the name.
DescriptionString(serviceName, features) == <<serviceName>> \o features

\* features.VersionFromDescription: the version the features recorded in a
\* description text need; GA when the text records none (or is empty).
VersionFromDescription(desc) ==
    IF desc = <<>> THEN VersionGA
    ELSE VersionFromFeatures(SelectSeq(Tail(desc), LAMBDA w : w \in Features))

FeatureLists == {SelectSeq(FeatureOrder, LAMBDA f : f \in S) : S \in SUBSET Features}

Descriptions == {<<>>} \cup {DescriptionString("default/app", fl) : fl \in FeatureLists}

\* The backend services of the cloud.
BackendName == "k8s-be-app"
\* compositeCloud.CreateKey(name, regional)
CreateKey(name, regional) == IF regional THEN RegionalKey(name, Region) ELSE GlobalKey(name)
BackendKeys == {CreateKey(BackendName, regional) : regional \in BOOLEAN}

NoBackend == [exists |-> FALSE, Description |-> <<>>]
CloudBackend(desc) == [exists |-> TRUE, Description |-> desc]

\* The fields of a backend service a version of the API carries: those of
\* the features that version or a higher one is enough for.
SchemaFeatures(version) == {f \in Features : ~IsLowerVersion(featureToVersion(f), version)}

\* composite.BackendService, with the API version a read of it went through
\* ("" for an object that was not read).
BackendService(name, version, resourceType, desc, features, readAt) ==
    [Name |-> name, Version |-> version, ResourceType |-> resourceType,
     Description |-> desc, features |-> features, readAt |-> readAt]

NilBackendService == BackendService("", "", "", <<>>, {}, "")

\* A switch whose default is the alpha API.
ApiVersionOrAlpha(version) ==
    IF version = VersionGA THEN VersionGA
    ELSE IF version = VersionBeta THEN VersionBeta
    ELSE VersionAlpha

\* The API a composite call goes through for a Version (the switch's default
\* is GA).
ApiVersion(version) ==
    IF version = VersionAlpha THEN VersionAlpha
    ELSE IF version = VersionBeta THEN VersionBeta
    ELSE VersionGA

\* composite.GetBackendService(version, key): the object as that version's
\* API gives it, converted to the composite type (whose Version the
\* conversion leaves unset).
GetBackendService(store, version, key, fails) ==
    IF fails THEN [err |-> "error", be |-> NilBackendService]
    ELSE IF ~store[key].exists THEN [err |-> "notfound", be |-> NilBackendService]
    ELSE [err |-> "",
          be |-> BackendService(key.name, "",
                                IF key.region # "" THEN "regional" ELSE "global",
                                store[key].Description,
                                {f \in Features :
                                    /\ f \in SchemaFeatures(ApiVersion(version))
                                    /\ \E n \in 1..Len(store[key].Description) :
                                          store[key].Description[n] = f},
                                ApiVersion(version))]

\* Whether Backends.Get reads the object again at the version its
\* description needs.
RefetchWhenHigher(versionRequired, version) == IsLowerVersion(version, versionRequired)

\* A Get that reads again whenever the two versions differ.
RefetchWhenDifferent(versionRequired, version) == versionRequired # ApiVersion(version)

Refetch(versionRequired, version) == IsLowerVersion(versionRequired, version)

\* What a call on the pool returns: the error ("" for nil), the object, and
\* the API versions its cloud calls went through, in order.
Returned(err, be, apis) ==
    [err |-> err, be |-> IF err = "" THEN be ELSE NilBackendService, apis |-> apis]

\* Backends.Get(name, version, regional); the call `failing` of it (1 or 2)
\* fails with a cloud error, 0 for none.
BackendsGet(store, name, version, regional, failing) ==
    LET key == CreateKey(name, regional)
        first == GetBackendService(store, version, key, failing = 1)
        versionRequired == VersionFromDescription(first.be.Description)
        second == GetBackendService(store, versionRequired, key, failing = 2)
    IN IF first.err # ""
       THEN Returned(first.err, first.be, <<ApiVersion(version)>>)
       ELSE IF Refetch(versionRequired, version)
       THEN Returned(second.err, second.be, <<ApiVersion(version), ApiVersion(versionRequired)>>)
       ELSE Returned("", first.be, <<ApiVersion(version)>>)

\* composite.UpdateBackendService(be, key): the update goes through the API
\* of be.Version.
UpdateBackendService(store, be, key, fails) ==
    IF fails THEN [err |-> "error", store |-> store, api |-> ApiVersion(be.Version)]
    ELSE IF ~store[key].exists
    THEN [err |-> "notfound", store |-> store, api |-> ApiVersion(be.Version)]
    ELSE [err |-> "", store |-> [store EXCEPT ![key] = CloudBackend(be.Description)],
          api |-> ApiVersion(be.Version)]

\* The version Backends.Update gives the object before it writes it.
CallerVersion(be) == be.Version

UpdateVersion(be) == VersionFromDescription(be.Description)

\* Backends.Update(be)
BackendsUpdate(store, be, fails) ==
    LET be1 == [be EXCEPT !.Version = UpdateVersion(be)]
        isRegional == be1.ResourceType = "regional"
    IN UpdateBackendService(store, be1, CreateKey(be1.Name, isRegional), fails)

\* utils.ServicePort: the service it belongs to and what it enables.
ServicePort(service, neg, securityPolicy, ilb) ==
    [Service |-> service, NEGEnabled |-> neg, SecurityPolicy |-> securityPolicy,
     ILBEnabled |-> ilb]
NoServicePort == ServicePort("", FALSE, FALSE, FALSE)
ServicePorts ==
    {ServicePort("default/app", neg, sec, ilb) : neg \in BOOLEAN, sec \in BOOLEAN, ilb \in BOOLEAN}

\* The features a service port enables, in the order of FeatureOrder.
featuresFromServicePort(sp) ==
    SelectSeq(FeatureOrder,
              LAMBDA f : \/ f = FeatureNEG /\ sp.NEGEnabled
                         \/ f = FeatureSecurityPolicy /\ sp.SecurityPolicy
                         \/ f = FeatureL7ILB /\ sp.ILBEnabled)

\* features.VersionFromServicePort
VersionFromServicePort(sp) == VersionFromFeatures(featuresFromServicePort(sp))

\* A creation that leaves the description as it is.
keepDescription(be, sp) == [needsUpdate |-> FALSE, be |-> be]

\* ensureDescription(be, sp): sp.GetDescription(), features.SetDescription
\* and desc.String(), written to be.Description unless it is that already.
ensureDescription(be, sp) ==
    LET descString == DescriptionString(sp.Service, featuresFromServicePort(sp))
    IN IF be.Description = descString
       THEN [needsUpdate |-> FALSE, be |-> be]
       ELSE [needsUpdate |-> TRUE, be |-> [be EXCEPT !.Description = descString]]

\* composite.CreateBackendService(be, key): the insert goes through the API
\* of be.Version and fails when the key is taken.
CreateBackendService(store, be, key, fails) ==
    IF fails THEN [err |-> "error", store |-> store, api |-> ApiVersion(be.Version)]
    ELSE IF store[key].exists
    THEN [err |-> "conflict", store |-> store, api |-> ApiVersion(be.Version)]
    ELSE [err |-> "", store |-> [store EXCEPT ![key] = CloudBackend(be.Description)],
          api |-> ApiVersion(be.Version)]

\* Backends.Create(sp, hcLink); the cloud call `failing` of it (1 the insert,
\* 2 the Get after it) fails, 0 for none.
BackendsCreate(store, sp, failing) ==
    LET name == BackendName
        version == VersionFromServicePort(sp)
        key == CreateKey(name, sp.ILBEnabled)
        be0 == BackendService(name, version, IF key.region # "" THEN "regional" ELSE "global",
                              <<>>, {}, "")
        be == ensureDescription(be0, sp).be
        created == CreateBackendService(store, be, key, failing = 1)
        got == BackendsGet(created.store, name, version, sp.ILBEnabled,
                           IF failing = 2 THEN 1 ELSE 0)
    IN IF created.err # ""
       THEN [err |-> created.err, be |-> NilBackendService, store |-> store,
             apis |-> <<created.api>>, version |-> version, key |-> key]
       ELSE [err |-> got.err, be |-> got.be, store |-> created.store,
             apis |-> <<created.api>> \o got.apis, version |-> version, key |-> key]

NoCall == [op |-> "", err |-> "", be |-> NilBackendService, version |-> "",
           key |-> GlobalKey(""), apis |-> <<>>, sp |-> NoServicePort]

\* The objects a caller may hand to Update: any Version marker, unset
\* included.
CallerBackends ==
    {BackendService(BackendName, v, rt, d, {}, "") :
        v \in Versions \cup {""}, rt \in {"global", "regional"}, d \in Descriptions}

Get(name, version, regional, failing) ==
    /\ LET r == BackendsGet(beStore, name, version, regional, failing)
       IN beResult' = [op |-> "Get", err |-> r.err, be |-> r.be, version |-> version,
                       key |-> CreateKey(name, regional), apis |-> r.apis,
                       sp |-> NoServicePort]
    /\ UNCHANGED beStore
    /\ UNCHANGED notBe

Update(be, fails) ==
    /\ LET r == BackendsUpdate(beStore, be, fails)
       IN /\ beStore' = r.store
          /\ beResult' = [op |-> "Update", err |-> r.err, be |-> be, version |-> be.Version,
                          key |-> CreateKey(be.Name, be.ResourceType = "regional"),
                          apis |-> <<r.api>>, sp |-> NoServicePort]
    /\ UNCHANGED notBe

Create(sp, failing) ==
    /\ LET r == BackendsCreate(beStore, sp, failing)
       IN /\ beStore' = r.store
          /\ beResult' = [op |-> "Create", err |-> r.err, be |-> r.be, version |-> r.version,
                          key |-> r.key, apis |-> r.apis, sp |-> sp]
    /\ UNCHANGED notBe

BeInit ==
    /\ beStore \in [BackendKeys -> {NoBackend} \cup {CloudBackend(d) : d \in Descriptions}]
    /\ beResult = NoCall
    /\ FwQuiet
    /\ DelQuiet
    /\ DiscQuiet
    /\ RaceQuiet
    /\ LbQuiet
    /\ SrcQuiet
    /\ ConvQuiet
    /\ GenQuiet
    /\ FakeQuiet

BeNext ==
    \/ \E version \in Versions, regional \in BOOLEAN, failing \in {0, 1, 2} :
          Get(BackendName, version, regional, failing)
    \/ \E be \in CallerBackends, fails \in BOOLEAN : Update(be, fails)
    \/ \E sp \in ServicePorts, failing \in {0, 1, 2} : Create(sp, failing)

SpecBE == BeInit /\ [][BeNext]_vars

(***************************************************************************)
(* The backend pool: properties.                                           *)
(***************************************************************************)
\* How stable a version of the API is.
Stability(v) == IF v = "ga" THEN 3 ELSE IF v = "beta" THEN 2 ELSE 1
MoreStable(a, b) == Stability(a) > Stability(b)

\* The version the features recorded in the stored description need.
RecordedFeatures(key) ==
    {f \in {"NEG", "SecurityPolicy", "L7ILB"} :
        \E n \in 1..Len(beStore[key].Description) : beStore[key].Description[n] = f}
RequiredVersion(features) ==
    IF "L7ILB" \in features THEN "alpha"
    ELSE IF "SecurityPolicy" \in features THEN "beta" ELSE "ga"

GetReturned == beResult.op = "Get" /\ beResult.err = ""

UpdateCalled == beResult.op = "Update"

\* C7: Backends.Update writes through the API version recovered from the
\* description of the object it is given, whatever Version the caller had
\* set, so never at a version more stable than the recorded features need.
C7_UpdateVersion ==
    UpdateCalled
        => LET recorded == {f \in {"NEG", "SecurityPolicy", "L7ILB"} :
                              \E n \in 1..Len(beResult.be.Description) :
                                  beResult.be.Description[n] = f}
           IN /\ beResult.apis = <<RequiredVersion(recorded)>>
              /\ ~MoreStable(beResult.apis[1], RequiredVersion(recorded))

C7_Witness ==
    /\ UpdateCalled
    /\ beResult.err = ""
    /\ beResult.version = "ga"
    /\ beResult.apis = <<"alpha">>
    /\ beStore[beResult.key].Description = beResult.be.Description

(***************************************************************************)
(* Backends.Delete, and its race with an independent garbage collector.    *)
(***************************************************************************)
NumDeleters == 2
Deleters == 1..NumDeleters

\* The failures of a cloud call other than not-found.
CloudErrors == {"forbidden", "unavailable"}

\* lbfeatures.ILBVersion
ILBVersion == VersionFromFeatures(<<FeatureL7ILB>>)

\* utils.IsHTTPErrorCode(err, http.StatusNotFound)
IsHTTPErrorCodeNotFound(err) == err = "notfound"

\* composite DeleteBackendService(version, key): the cloud's answer ("" for
\* success) and its backend services afterwards.
DeleteBackendService(store, version, key, cloudErr) ==
    IF cloudErr # "" THEN [err |-> cloudErr, store |-> store]
    ELSE IF ~store[key].exists THEN [err |-> "notfound", store |-> store]
    ELSE [err |-> "", store |-> [store EXCEPT ![key] = NoBackend]]

\* The version Delete deletes at.
DeleteVersion(regional) == IF regional THEN ILBVersion ELSE VersionGA

\* The key Delete deletes.
DeleteGlobalKey(name, regional) == GlobalKey(name)

DeleteKey(name, regional) == CreateKey(name, regional)

\* The deferred function of Delete: not-found becomes nil.
DeferNothing(err) == err

DeferNotFound(err) == IF IsHTTPErrorCodeNotFound(err) THEN "" ELSE err

\* What Backends.Delete returns for an answer of the cloud: `return err` for
\* an error that is not not-found, the bare `return` otherwise, both through
\* the deferred function.
BackendsDelete(err) ==
    IF err # "" /\ ~IsHTTPErrorCodeNotFound(err)
    THEN DeferNotFound(err)
    ELSE DeferNotFound(err)

\* A Delete call: where it is ("idle", "calling", "answered", "returned"),
\* its scope, whether the backend service existed when it started, the
\* cloud's answer and the error it returned.
DeleteCall(pc, regional, existed, answer, err) ==
    [pc |-> pc, regional |-> regional, existed |-> existed, answer |-> answer, err |-> err]

IdleCall == DeleteCall("idle", FALSE, FALSE, "", "")

\* Delete(name, regional) is entered.
DeleteStart(d, regional) ==
    /\ delCalls[d].pc = "idle"
    /\ delCalls' = [delCalls EXCEPT ![d] =
                      DeleteCall("calling", regional,
                                 beStore[CreateKey(BackendName, regional)].exists, "", "")]
    /\ UNCHANGED <<beStore, gcDeleted>>
    /\ UNCHANGED notRace

\* Its DeleteBackendService call reaches the cloud.
DeleteCloudCall(d, cloudErr) ==
    /\ delCalls[d].pc = "calling"
    /\ LET regional == delCalls[d].regional
           r == DeleteBackendService(beStore, DeleteVersion(regional),
                                     DeleteKey(BackendName, regional), cloudErr)
       IN /\ beStore' = r.store
          /\ delCalls' = [delCalls EXCEPT ![d].pc = "answered",
                                          ![d].answer = IF r.err = "" THEN "ok" ELSE r.err]
    /\ UNCHANGED gcDeleted
    /\ UNCHANGED notRace

\* Delete returns.
DeleteReturn(d) ==
    /\ delCalls[d].pc = "answered"
    /\ delCalls' = [delCalls EXCEPT
                      ![d].pc = "returned",
                      ![d].err = BackendsDelete(IF delCalls[d].answer = "ok"
                                                THEN "" ELSE delCalls[d].answer)]
    /\ UNCHANGED <<beStore, gcDeleted>>
    /\ UNCHANGED notRace

\* The garbage collector deletes a backend service it finds.
GarbageCollect(key) ==
    /\ beStore[key].exists
    /\ beStore' = [beStore EXCEPT ![key] = NoBackend]
    /\ gcDeleted' = gcDeleted \cup {key}
    /\ UNCHANGED delCalls
    /\ UNCHANGED notRace

RaceInit ==
    /\ beStore \in [BackendKeys ->
                       {NoBackend, CloudBackend(<<>>),
                        CloudBackend(DescriptionString("default/app", <<FeatureL7ILB>>))}]
    /\ beResult = <<>>
    /\ delCalls = [d \in Deleters |-> IdleCall]
    /\ gcDeleted = {}
    /\ FwQuiet
    /\ DelQuiet
    /\ DiscQuiet
    /\ LbQuiet
    /\ SrcQuiet
    /\ ConvQuiet
    /\ GenQuiet
    /\ FakeQuiet

RaceNext ==
    \/ \E d \in Deleters, regional \in BOOLEAN : DeleteStart(d, regional)
    \/ \E d \in Deleters, cloudErr \in CloudErrors \cup {""} : DeleteCloudCall(d, cloudErr)
    \/ \E d \in Deleters : DeleteReturn(d)
    \/ \E key \in BackendKeys : GarbageCollect(key)

SpecRace == RaceInit /\ [][RaceNext]_vars

(***************************************************************************)
(* Backends.Delete: properties.                                            *)
(***************************************************************************)
ReturnedCalls == {d \in Deleters : delCalls[d].pc = "returned"}
KeyOfCall(d) == IF delCalls[d].regional THEN RegionalKey("k8s-be-app", "us-central1")
                ELSE GlobalKey("k8s-be-app")
OtherFailure(d) == delCalls[d].answer \in {"forbidden", "unavailable"}

\* C11: Delete returns nil when the backend service does not exist, nil after
\* deleting an existing one (which is then gone), and any other cloud error
\* unchanged; a Delete after a Delete of the same backend service returns nil
\* as well.
C11_DeleteNotFoundIsSuccess ==
    \A d \in ReturnedCalls :
        /\ delCalls[d].answer = "notfound" => delCalls[d].err = ""
        /\ delCalls[d].answer = "ok"
              => delCalls[d].err = "" /\ ~beStore[KeyOfCall(d)].exists
        /\ OtherFailure(d) => delCalls[d].err = delCalls[d].answer
        /\ delCalls[d].answer \in {"ok", "notfound", "forbidden", "unavailable"}

C11_Witness ==
    /\ gcDeleted = {}
    /\ \E d, e \in ReturnedCalls :
          /\ KeyOfCall(d) = KeyOfCall(e)
          /\ delCalls[d].answer = "ok" /\ delCalls[d].err = ""
          /\ delCalls[e].answer = "notfound" /\ delCalls[e].err = ""
          /\ ~delCalls[e].existed

\* The calls on a key, all returned, none of them having met a cloud failure
\* other than not-found.
CallsOn(key) == {d \in Deleters : delCalls[d].pc # "idle" /\ KeyOfCall(d) = key}
AllReturned(key) ==
    /\ CallsOn(key) # {}
    /\ CallsOn(key) \subseteq ReturnedCalls
    /\ \A d \in CallsOn(key) : ~OtherFailure(d)

\* C12: however Delete calls and the garbage collector interleave (no cloud
\* failure other than not-found), every Delete call returns nil and the
\* backend service is absent once the last call has returned.
C12_RaceWithGC ==
    \A key \in {RegionalKey("k8s-be-app", "us-central1"), GlobalKey("k8s-be-app")} :
        AllReturned(key)
            => /\ \A d \in CallsOn(key) : delCalls[d].err = ""
               /\ ~beStore[key].exists

C12_Witness ==
    \E d, e \in Deleters :
        /\ d # e
        /\ AllReturned(KeyOfCall(d))
        /\ KeyOfCall(d) = KeyOfCall(e)
        /\ KeyOfCall(d) \in gcDeleted
        /\ delCalls[d].existed /\ delCalls[d].answer = "notfound"
        /\ delCalls[e].existed /\ delCalls[e].answer = "notfound"

(***************************************************************************)
(* GCLB discovery: further properties.                                     *)
(***************************************************************************)
RulesWithVIP ==
    {i \in RuleIds : gfrStore[i].IPAddress = discResult.vip /\ gfrStore[i].Region = ""}

\* The target of the rule is not the URL of an HTTP or HTTPS target proxy:
\* it does not parse, or names another kind of resource.
TargetUnusable(i) == ProxyOfRule(i) = {}

\* The Gets behind the resources of a graph.
GraphGets(g) ==
    {CloudEntry("TargetHttpProxies", k) : k \in g.TargetHTTPProxy}
    \cup {CloudEntry("TargetHttpsProxies", k) : k \in g.TargetHTTPSProxy}
    \cup {CloudEntry("UrlMaps", k) : k \in g.URLMap}
    \cup {CloudEntry("BackendServices", k) : k \in g.BackendService}
    \cup {CloudEntry("BetaBackendServices", k) : k \in g.BackendService}
    \cup {CloudEntry("NetworkEndpointGroups", k) : k \in g.NetworkEndpointGroup}
    \cup {CloudEntry("InstanceGroups", k) : k \in g.InstanceGroup}

\* C13: when the list, a Get or the parsing of a reference fails, GCLBForVIP
\* returns an error and no graph; a graph is returned only with no error and
\* only when the list, every Get behind it and every parsing succeeded.
C13_ErrorMeansNoGraph ==
    DiscReturned
        => /\ discResult.status # "ok" => discResult.gclb = {}
           /\ discResult.status = "error" <=> discResult.err # ""
           /\ ( \/ discFailure = CloudEntry("GlobalForwardingRules", GlobalKey(""))
                \/ \E i \in RulesWithVIP : TargetUnusable(i) \/ discFailure \in ProxyOfRule(i) )
                 => discResult.status = "error"
           /\ \A g \in discResult.gclb :
                 /\ discResult.status = "ok"
                 /\ discFailure \notin GraphGets(g)
                 /\ \A i \in RulesWithVIP : ~TargetUnusable(i)

C13_Witness ==
    /\ DiscReturned
    /\ discFailure = CloudEntry("BetaBackendServices", BsDefault)
    /\ discResult.err = "get backend service groups"
    /\ discResult.gclb = {}
    /\ RulesWithVIP = RuleIds
    /\ discResult.validators # <<>>

\* The least stable version the validators of the call need a kind at.
RequiredFor(kind) ==
    LET needed == {discResult.validators[n].ResourceVersions[kind] :
                      n \in 1..Len(discResult.validators)}
    IN IF "alpha" \in needed THEN "alpha"
       ELSE IF "beta" \in needed THEN "beta" ELSE "ga"

\* C14: when a validator requires alpha (or beta) for a kind, the returned
\* graph holds the alpha (or beta) projection of every resource of that kind.
C14_LeastStableProjection ==
    DiscReturned
        => \A g \in discResult.gclb :
              \A n \in 1..Len(GraphKinds) :
                 \A k \in g[GraphKinds[n]] :
                    RequiredFor(GraphKinds[n]) # "ga"
                        => [kind |-> GraphKinds[n], key |-> k,
                            version |-> RequiredFor(GraphKinds[n])] \in discResult.projections

\* The scopes the validators of the call need forwarding rules listed at.
RequiredScopes ==
    LET scopes == {discResult.validators[n].Scope : n \in 1..Len(discResult.validators)}
    IN IF scopes = {} THEN {"global"} ELSE scopes

RuleScope(i) == IF gfrStore[i].Region = "" THEN "global" ELSE "regional"
RuleKey(i) == [name |-> gfrStore[i].Name, region |-> gfrStore[i].Region, zone |-> ""]

\* C15: the forwarding rules of a returned graph are exactly the rules, at
\* every scope the validators require, whose address is the VIP.
C15_RulesOfEveryScope ==
    DiscReturned
        => \A g \in discResult.gclb :
              g.ForwardingRule =
                  {RuleKey(i) : i \in {j \in RuleIds :
                                          /\ gfrStore[j].IPAddress = discResult.vip
                                          /\ RuleScope(j) \in RequiredScopes}}

\* The name a resource URL ends with.
NameOfURL(url) == url[Len(url)]

\* The backend services a URL map of the cloud references.
ServicesOfUrlMap(key) ==
    LET um == UrlMapObject(key)
    IN {NameOfURL(um.DefaultService)}
       \cup {NameOfURL(um.PathMatchers[n].DefaultService) : n \in 1..Len(um.PathMatchers)}
       \cup UNION {{NameOfURL(um.PathMatchers[n].PathRules[m].Service) :
                       m \in 1..Len(um.PathMatchers[n].PathRules)} :
                   n \in 1..Len(um.PathMatchers)}

\* C16: the backend services of a returned graph are exactly those its URL
\* map references as its default service, a path matcher's default service or
\* a path rule's service, each once, and each of them was fetched.
C16_BackendServicesOfUrlMap ==
    DiscReturned
        => \A g \in discResult.gclb :
              /\ {k.name : k \in g.BackendService}
                    = UNION {ServicesOfUrlMap(um) : um \in g.URLMap}
              /\ \A k \in g.BackendService :
                    /\ k.region = "" /\ k.zone = ""
                    /\ discFailure # [service |-> "BackendServices", key |-> k]

C16_Witness ==
    /\ DiscReturned
    /\ \E g \in discResult.gclb :
          /\ g.URLMap = {UmKey}
          /\ g.BackendService = {BsDefault, BsApp}
    /\ Len(UrlMapObject(UmKey).PathMatchers) = 1
    /\ UrlMapObject(UmKey).PathMatchers[1].DefaultService = UrlMapObject(UmKey).DefaultService
    /\ discFailure = NoFailure

\* The type segment of a zonal group URL, and the key it names.
GroupType(url) == url[Len(url) - 1]
GroupKey(url) == [name |-> url[Len(url)], region |-> "", zone |-> url[Len(url) - 2]]
GroupsOfGraph(g) ==
    UNION {{BackendGroups(k)[n] : n \in 1..Len(BackendGroups(k))} : k \in g.BackendService}

\* C17: every group a backend service of the graph references is a NEG or an
\* instance group by the type segment of its URL, never both; the NEGs and
\* the instance groups of the graph are exactly the keys so classified, and
\* each of them was fetched.
C17_GroupsClassified ==
    DiscReturned
        => \A g \in discResult.gclb :
              /\ \A url \in GroupsOfGraph(g) :
                    GroupType(url) \in {"networkEndpointGroups", "instanceGroups"}
              /\ g.NetworkEndpointGroup =
                    {GroupKey(url) : url \in {u \in GroupsOfGraph(g) :
                                                 GroupType(u) = "networkEndpointGroups"}}
              /\ g.InstanceGroup =
                    {GroupKey(url) : url \in {u \in GroupsOfGraph(g) :
                                                 GroupType(u) = "instanceGroups"}}
              /\ g.NetworkEndpointGroup \cap g.InstanceGroup = {}
              /\ \A k \in g.NetworkEndpointGroup :
                    discFailure # [service |-> "NetworkEndpointGroups", key |-> k]
              /\ \A k \in g.InstanceGroup :
                    discFailure # [service |-> "InstanceGroups", key |-> k]

C17_Witness ==
    /\ DiscReturned
    /\ \E g \in discResult.gclb :
          /\ BsApp \in g.BackendService
          /\ g.NetworkEndpointGroup = {NegKey}
          /\ g.InstanceGroup = {IgKey}
    /\ discResult.validators = <<>>

(***************************************************************************)
(* Deletion verification of the NEGs.                                      *)
(***************************************************************************)
\* The graph restricted to its NEGs, and an iteration order so restricted.
NEGsOnly(g) == Graph({}, {}, {}, {}, {}, g.NetworkEndpointGroup, {})
NEGOrder(negOrder) ==
    [ForwardingRule |-> <<>>, TargetHTTPProxy |-> <<>>, TargetHTTPSProxy |-> <<>>,
     URLMap |-> <<>>, BackendService |-> <<>>,
     NetworkEndpointGroup |-> negOrder, InstanceGroup |-> <<>>]

\* What a caller learns from a verification: success, the resources that
\* remain, the resource whose Get failed, or a panic.
Outcome(r) ==
    [class |-> CASE r.status = "nil" -> "success"
                 [] r.status = "exist" -> "remaining"
                 [] r.status \in {"geterror", "err"} -> "geterror"
                 [] r.status = "panic" -> "panic",
     remaining |-> {r.resources[n] : n \in 1..Len(r.resources)},
     failed |-> r.failed]

OtherKindEntries == {e \in CloudEntries : e.service # "NetworkEndpointGroups"}

NEGReturned == delPc = "returned" /\ delResult.call = "CheckNEGDeletion"

\* C18: CheckNEGDeletion gives the outcome of CheckResourceDeletion on the
\* graph restricted to its NEGs, whatever the options, and neither the graph's resources of other
\* kinds nor their state in the cloud change its result.
C18_NEGDeletionIsRestriction ==
    NEGReturned
        => LET ord == NEGOrder(delResult.negOrder)
               apiErr == delResult.negApiErr
           IN /\ \A options \in AllDeleteOptions :
                    /\ Outcome(delResult)
                          = Outcome(CheckResourceDeletion(NEGsOnly(gclb), cloud, options,
                                                          ord, apiErr))
                    /\ Outcome(CheckNEGDeletion(NEGsOnly(gclb), cloud, options, ord, apiErr))
                          = Outcome(delResult)
              /\ \A e \in OtherKindEntries, s \in GetStatuses :
                    Outcome(CheckNEGDeletion(gclb, [cloud EXCEPT ![e] = s], NilOptions,
                                             ord, apiErr))
                        = Outcome(delResult)

C18_Witness ==
    /\ NEGReturned
    /\ delResult.status = "exist"
    /\ delResult.resources = <<Resource("NetworkEndpointGroup", NegKey)>>
    /\ gclb = FullGraph
    /\ cloud[CloudEntry("UrlMaps", UmKey)] = "error"
    /\ cloud[CloudEntry("BackendServices", BsApp)] = "present"

(***************************************************************************)
(* The backend pool: creation.                                             *)
(***************************************************************************)
\* Create wrote the backend service: its insert went through, whether or not
\* the Get after it did.
CreateWrote == beResult.op = "Create" /\ Len(beResult.apis) >= 2

\* The features a service port enables and the version they force.
EnabledFeatures(sp) ==
    {f \in {"NEG", "SecurityPolicy", "L7ILB"} :
        \/ f = "NEG" /\ sp.NEGEnabled
        \/ f = "SecurityPolicy" /\ sp.SecurityPolicy
        \/ f = "L7ILB" /\ sp.ILBEnabled}
ForcesNonStable(f) == RequiredVersion({f}) # "ga"

\* C19: the backend service Create wrote records in its description every
\* feature of the service port that forces a non-stable version, and
\* VersionFromDescription recovers from it the version it was created with;
\* a port whose features require beta gives beta.
C19_CreateRecordsVersion ==
    CreateWrote
        => LET sp == beResult.sp
               desc == beStore[beResult.key].Description
           IN /\ beStore[beResult.key].exists
              /\ \A f \in EnabledFeatures(sp) :
                    ForcesNonStable(f) => f \in RecordedFeatures(beResult.key)
              /\ beResult.version = RequiredVersion(EnabledFeatures(sp))
              /\ VersionFromDescription(desc) = beResult.version
              /\ (sp.SecurityPolicy /\ ~sp.ILBEnabled => VersionFromDescription(desc) = "beta")
              /\ beResult.apis[1] = beResult.version

C19_Witness ==
    /\ CreateWrote
    /\ beResult.err = ""
    /\ beResult.sp.SecurityPolicy /\ beResult.sp.NEGEnabled /\ ~beResult.sp.ILBEnabled
    /\ beResult.version = "beta"
    /\ beResult.be.readAt = "beta"
    /\ beStore[beResult.key].Description = <<"default/app", "NEG", "SecurityPolicy">>

(***************************************************************************)
(* Backend features: the locality load-balancing policy.                   *)
(***************************************************************************)
\* The values of LocalityLbPolicy; "" is the unset one.
LocalityLbPolicies == {"", "ROUND_ROBIN", "MAGLEV", "RING_HASH"}

\* v1beta1.TrafficManagementConfig, or none (nil).
NilTrafficManagement == [isNil |-> TRUE, LocalityLbPolicy |-> ""]
TrafficManagementConfig(policy) == [isNil |-> FALSE, LocalityLbPolicy |-> policy]

\* A service port with a BackendConfig.  EnsureLocalityLbPolicy dereferences
\* sp.BackendConfig unconditionally: it is called for ports that have one.
ConfiguredPort(l7ilb, trafficManagement) ==
    [L7ILBEnabled |-> l7ilb,
     BackendConfig |-> [Spec |-> [TrafficManagement |-> trafficManagement]]]

ConfiguredPorts ==
    {ConfiguredPort(l7ilb, tm) :
        l7ilb \in BOOLEAN,
        tm \in {NilTrafficManagement} \cup {TrafficManagementConfig(p) : p \in LocalityLbPolicies}}

\* The fields of a composite.BackendService the feature may meet.
LbBackendService(scheme, desc, policy) ==
    [Name |-> BackendName, LoadBalancingScheme |-> scheme, Description |-> desc,
     LocalityLbPolicy |-> policy]

LbBackendServices ==
    {LbBackendService(scheme, desc, policy) :
        scheme \in {"", "INTERNAL"},
        desc \in {<<>>, <<"default/app", "L7ILB">>},
        policy \in LocalityLbPolicies}

\* A feature that is applied by changing nothing.
applyNothing(sp, be) == be

\* applyLocalityLbPolicy(sp, be)
applyLocalityLbPolicy(sp, be) ==
    [be EXCEPT !.LocalityLbPolicy = sp.BackendConfig.Spec.TrafficManagement.LocalityLbPolicy]

\* EnsureLocalityLbPolicy(sp, be): what it returns and what be is afterwards.
EnsureLocalityLbPolicy(sp, be) ==
    LET tm == sp.BackendConfig.Spec.TrafficManagement
    IN IF tm.isNil \/ tm.LocalityLbPolicy = ""
       THEN [returned |-> FALSE, be |-> be]
       ELSE IF be.LocalityLbPolicy # tm.LocalityLbPolicy
       THEN [returned |-> TRUE, be |-> applyLocalityLbPolicy(sp, be)]
       ELSE [returned |-> FALSE, be |-> be]

NoLbCall == [called |-> FALSE, sp |-> ConfiguredPort(FALSE, NilTrafficManagement),
             before |-> LbBackendService("", <<>>, ""), returned |-> FALSE]

EnsureLocalityLbPolicyCall(sp) ==
    /\ LET r == EnsureLocalityLbPolicy(sp, lbBackend)
       IN /\ lbBackend' = r.be
          /\ lbResult' = [called |-> TRUE, sp |-> sp, before |-> lbBackend,
                          returned |-> r.returned]
    /\ UNCHANGED notLb

LbInit ==
    /\ lbBackend \in LbBackendServices
    /\ lbResult = NoLbCall
    /\ FwQuiet
    /\ DelQuiet
    /\ DiscQuiet
    /\ BeQuiet
    /\ RaceQuiet
    /\ SrcQuiet
    /\ ConvQuiet
    /\ GenQuiet
    /\ FakeQuiet

LbNext == \E sp \in ConfiguredPorts : EnsureLocalityLbPolicyCall(sp)

SpecLB == LbInit /\ [][LbNext]_vars

\* The locality policy a port's BackendConfig configures; "" for none.
ConfiguredPolicy(sp) ==
    IF sp.BackendConfig.Spec.TrafficManagement.isNil THEN ""
    ELSE sp.BackendConfig.Spec.TrafficManagement.LocalityLbPolicy

RangeReturned == srcRange.called /\ srcRange.listOK

\* The subnetworks of a list that can serve internal HTTPS load balancing in
\* the cluster's region, and those of them in the cluster's network.
IlbSubnetsOfRegion(all) ==
    {n \in 1..Len(all) : /\ all[n].region = "us-central1"
                         /\ all[n].role = "ACTIVE"
                         /\ all[n].purpose = "INTERNAL_HTTPS_LOAD_BALANCER"}
IlbSubnetsOfNetwork(all) == {n \in IlbSubnetsOfRegion(all) : all[n].network = "default"}

\* C21: subnetworks of another network are ignored, and without an ACTIVE
\* internal-HTTPS-load-balancer subnetwork in the cluster's region and network
\* the range is empty and the error is ErrSubnetNotFound.
C21_OtherNetworkIgnored ==
    RangeReturned
        => IF IlbSubnetsOfNetwork(srcRange.all) = {}
           THEN srcRange.range = "" /\ srcRange.err = "ErrSubnetNotFound"
           ELSE /\ srcRange.err = ""
                /\ \E n \in IlbSubnetsOfNetwork(srcRange.all) :
                      srcRange.range = srcRange.all[n].cidr

C23_NotSyncedFails ==
    (SyncReturned /\ ~hasSynced)
        => /\ lastSync.err # ""
           /\ lastSync.gc = 0
           /\ lastSync.sync = 0
           /\ lastSync.events = <<>>

C23_Witness ==
    /\ SyncReturned /\ ~hasSynced
    /\ ManagedIds # {}
    /\ lastSync.nodesOK /\ lastSync.listOK
    /\ lastSync.err = "waiting for stores to sync"

\* The attempt needs the ILB subnet: the flag is on and a managed ingress is
\* an L7-ILB ingress; and the subnet cannot be resolved: the List call fails
\* or no ACTIVE internal-HTTPS-load-balancer subnet is in the region.
NeedsIlbSubnet == EnableL7Ilb /\ \E i \in ManagedIds : ingStore[i].ilb
IlbSubnetUnresolved ==
    \/ ~lastSync.listOK
    \/ ~\E n \in 1..Len(subnets) :
           /\ subnets[n].region = "us-central1"
           /\ subnets[n].role = "ACTIVE"
           /\ subnets[n].purpose = "INTERNAL_HTTPS_LOAD_BALANCER"

\* C24: when the L7-ILB feature is enabled and requested by a managed ingress
\* and the ILB subnet cannot be resolved, sync returns an error and calls
\* neither Sync nor GC of the firewall pool.
C24_UnresolvedSubnetFails ==
    (SyncReturned /\ hasSynced /\ NeedsIlbSubnet /\ IlbSubnetUnresolved)
        => /\ lastSync.err # ""
           /\ lastSync.sync = 0
           /\ lastSync.gc = 0

C24_Witness ==
    /\ SyncReturned /\ hasSynced /\ NeedsIlbSubnet
    /\ lastSync.nodesOK /\ lastSync.listOK
    /\ subnets = <<OtherRegionSubnet, BackupIlbSubnet>>
    /\ lastSync.err = "error unable to get ILB subnet source ranges"

\* C25: when firewallPool.Sync fails with an error that is not an XPN error,
\* sync returns that error and records no event.
C25_OtherPoolErrorReturned ==
    (SyncReturned /\ lastSync.pool = "error")
        => /\ lastSync.err = "firewall sync"
           /\ lastSync.events = <<>>

C25_Witness ==
    /\ SyncReturned /\ lastSync.pool = "error"
    /\ lastSync.sync = 1
    /\ \E i \in ManagedIds : ~ingStore[i].suppress
    /\ lastSync.err = "firewall sync"

\* C26: a sync attempt with synced caches and a managed ingress, whose node
\* listing and needed subnet resolution succeed, calls firewallPool.Sync once
\* and GC not at all; GC is called only by an attempt that sees no managed
\* ingress, and no attempt calls the pool more than once.
C26_OnePoolCall ==
    SyncReturned
        => /\ (hasSynced /\ ManagedIds # {} /\ lastSync.nodesOK
                 /\ ~(NeedsIlbSubnet /\ IlbSubnetUnresolved))
                  => (lastSync.sync = 1 /\ lastSync.gc = 0)
           /\ lastSync.gc # 0 => (ManagedIds = {} /\ hasSynced)
           /\ lastSync.gc + lastSync.sync <= 1

C26_Witness ==
    /\ SyncReturned /\ hasSynced
    /\ Cardinality(ManagedIds) = 2
    /\ NeedsIlbSubnet
    /\ lastSync.sync = 1
    /\ lastSync.gc = 0
    /\ lastSync.additionalRanges = <<"10.0.0.0/24">>

(***************************************************************************)
(* Composite conversions (pkg/composite, generated): a wire BackendService *)
(* of a version is converted to the composite type (toBackendService) and  *)
(* the composite type to a wire type (toAlpha, toBeta, toGA), each through *)
(* JSON.  A JSON object is a function from the keys it holds; the keys are *)
(* the fields' names (the composite type's tags are the wire types').      *)
(***************************************************************************)
\* The data fields of the composite BackendService, and those the wire type
\* of a version has.
DataFields == {"Description", "SecurityPolicy", "LocalityLbPolicy", "Iap", "CdnPolicy"}
WireTypeFields(version) ==
    {"Description", "Iap", "CdnPolicy"}
    \cup (IF version \in {VersionAlpha, VersionBeta} THEN {"SecurityPolicy"} ELSE {})
    \cup (IF version = VersionAlpha THEN {"LocalityLbPolicy"} ELSE {})

IapFields == {"Enabled", "Oauth2ClientId"}
CdnPolicyFields == {"CacheKeyPolicy"}
CacheKeyPolicyFields == {"IncludeHost", "QueryStringWhitelist"}
PointerFields == {"Iap", "CdnPolicy", "CacheKeyPolicy"}

\* The sub-objects; isNil for a nil pointer.
BackendServiceIAP(enabled, clientId, force) ==
    [isNil |-> FALSE, Enabled |-> enabled, Oauth2ClientId |-> clientId,
     ForceSendFields |-> force]
NilIap == [isNil |-> TRUE, Enabled |-> FALSE, Oauth2ClientId |-> "", ForceSendFields |-> {}]

CacheKeyPolicy(includeHost, whitelist, force) ==
    [isNil |-> FALSE, IncludeHost |-> includeHost, QueryStringWhitelist |-> whitelist,
     ForceSendFields |-> force]
NilCacheKeyPolicy ==
    [isNil |-> TRUE, IncludeHost |-> FALSE, QueryStringWhitelist |-> <<>>,
     ForceSendFields |-> {}]

BackendServiceCdnPolicy(cacheKeyPolicy) ==
    [isNil |-> FALSE, CacheKeyPolicy |-> cacheKeyPolicy, ForceSendFields |-> {}]
NilCdnPolicy == [isNil |-> TRUE, CacheKeyPolicy |-> NilCacheKeyPolicy, ForceSendFields |-> {}]

\* compute{alpha,beta,}.BackendService: version names the wire type.
WireBackendService(version, desc, securityPolicy, localityLbPolicy, iap, cdnPolicy, force) ==
    [version |-> version, Description |-> desc, SecurityPolicy |-> securityPolicy,
     LocalityLbPolicy |-> localityLbPolicy, Iap |-> iap, CdnPolicy |-> cdnPolicy,
     ForceSendFields |-> force]

\* composite.BackendService, with its Version marker.
CompositeBackendService(version, desc, securityPolicy, localityLbPolicy, iap, cdnPolicy) ==
    [Version |-> version, Description |-> desc, SecurityPolicy |-> securityPolicy,
     LocalityLbPolicy |-> localityLbPolicy, Iap |-> iap, CdnPolicy |-> cdnPolicy,
     ForceSendFields |-> {}]

NoComposite == CompositeBackendService("", "", "", "", NilIap, NilCdnPolicy)

\* The zero value of a scalar field, and omitempty's notion of empty.
ScalarZero(field) ==
    CASE field \in {"Enabled", "IncludeHost"} -> FALSE
      [] field = "QueryStringWhitelist" -> <<>>
      [] OTHER -> ""
IsEmptyValue(field, value) ==
    IF field \in PointerFields THEN value.isNil ELSE value = ScalarZero(field)

\* The keys json.Marshal writes for a struct: the fields that are not empty
\* and, for a wire type (whose MarshalJSON honours ForceSendFields), the
\* scalar fields marked to be sent.
EmittedKeys(obj, fields, honoursForceSend) ==
    {f \in fields :
        \/ ~IsEmptyValue(f, obj[f])
        \/ honoursForceSend /\ f \notin PointerFields /\ f \in obj.ForceSendFields}

MarshalScalars(obj, fields, honoursForceSend) ==
    [f \in EmittedKeys(obj, fields, honoursForceSend) |-> obj[f]]

MarshalCdnPolicy(obj, honoursForceSend) ==
    [f \in EmittedKeys(obj, CdnPolicyFields, honoursForceSend) |->
        MarshalScalars(obj.CacheKeyPolicy, CacheKeyPolicyFields, honoursForceSend)]

MarshalFields(obj, fields, honoursForceSend) ==
    [f \in EmittedKeys(obj, fields, honoursForceSend) |->
        CASE f = "Iap" -> MarshalScalars(obj.Iap, IapFields, honoursForceSend)
          [] f = "CdnPolicy" -> MarshalCdnPolicy(obj.CdnPolicy, honoursForceSend)
          [] OTHER -> obj[f]]

\* json.Marshal of a wire object.
MarshalWire(obj) == MarshalFields(obj, WireTypeFields(obj.version), TRUE)

\* json.Marshal of a composite object: Version has no tag, so it is written
\* under its own name, empty or not; ForceSendFields is not honoured.
MarshalComposite(obj) ==
    MarshalFields(obj, DataFields, FALSE) @@ [f \in {"Version"} |-> obj.Version]

\* json.Unmarshal: a field takes the value of its key, or stays zero.
ScalarOf(json, field) == IF field \in DOMAIN json THEN json[field] ELSE ScalarZero(field)

UnmarshalIap(json, fields) ==
    IF "Iap" \in fields /\ "Iap" \in DOMAIN json
    THEN BackendServiceIAP(ScalarOf(json["Iap"], "Enabled"),
                           ScalarOf(json["Iap"], "Oauth2ClientId"), {})
    ELSE NilIap

UnmarshalCacheKeyPolicy(json) ==
    IF "CacheKeyPolicy" \in DOMAIN json
    THEN CacheKeyPolicy(ScalarOf(json["CacheKeyPolicy"], "IncludeHost"),
                        ScalarOf(json["CacheKeyPolicy"], "QueryStringWhitelist"), {})
    ELSE NilCacheKeyPolicy

UnmarshalCdnPolicy(json, fields) ==
    IF "CdnPolicy" \in fields /\ "CdnPolicy" \in DOMAIN json
    THEN BackendServiceCdnPolicy(UnmarshalCacheKeyPolicy(json["CdnPolicy"]))
    ELSE NilCdnPolicy

ScalarOfType(json, fields, field) ==
    IF field \in fields THEN ScalarOf(json, field) ELSE ScalarZero(field)

\* json.Unmarshal into the wire type of a version: keys the type has no field
\* for are dropped.
UnmarshalWire(json, version) ==
    LET fields == WireTypeFields(version)
    IN WireBackendService(version,
                          ScalarOfType(json, fields, "Description"),
                          ScalarOfType(json, fields, "SecurityPolicy"),
                          ScalarOfType(json, fields, "LocalityLbPolicy"),
                          UnmarshalIap(json, fields), UnmarshalCdnPolicy(json, fields), {})

\* json.Unmarshal into the composite type.
UnmarshalComposite(json) ==
    CompositeBackendService(ScalarOfType(json, DOMAIN json, "Version"),
                            ScalarOf(json, "Description"),
                            ScalarOf(json, "SecurityPolicy"),
                            ScalarOf(json, "LocalityLbPolicy"),
                            UnmarshalIap(json, DataFields),
                            UnmarshalCdnPolicy(json, DataFields))

\* A conversion that marks the composite with the version of the wire type.
toBackendServiceOfVersion(obj) ==
    [UnmarshalComposite(MarshalWire(obj)) EXCEPT !.Version = obj.version]

\* toBackendService(obj)
toBackendService(obj) == UnmarshalComposite(MarshalWire(obj))

CacheKeyPolicyForceSend ==
    {"IncludeHost", "IncludeProtocol", "IncludeQueryString", "QueryStringBlacklist",
     "QueryStringWhitelist"}
IapForceSend == {"Enabled", "Oauth2ClientId", "Oauth2ClientSecret"}

\* A conversion that marks nothing.
NoForceSendMarks(obj) == obj

\* "Set force send fields": the marks toAlpha/toBeta/toGA put on the object.
ForceSendMarks(obj) ==
    LET marked == IF ~obj.CdnPolicy.isNil /\ ~obj.CdnPolicy.CacheKeyPolicy.isNil
                  THEN [obj EXCEPT !.CdnPolicy.CacheKeyPolicy.ForceSendFields =
                                       CacheKeyPolicyForceSend]
                  ELSE obj
    IN IF ~marked.Iap.isNil
       THEN [marked EXCEPT !.Iap.ForceSendFields = IapForceSend]
       ELSE marked

\* A conversion that goes through the GA type whatever the version.
toVersionThroughGA(obj, version) ==
    [ForceSendMarks(UnmarshalWire(MarshalComposite(obj), VersionGA))
        EXCEPT !.version = version]

\* toAlpha / toBeta / toGA
toVersion(obj, version) == ForceSendMarks(UnmarshalWire(MarshalComposite(obj), version))

\* The wire objects a cloud may answer.
WireIaps ==
    {NilIap, BackendServiceIAP(FALSE, "", {}), BackendServiceIAP(FALSE, "", {"Enabled"}),
     BackendServiceIAP(TRUE, "client", {})}
WireCdnPolicies ==
    {NilCdnPolicy, BackendServiceCdnPolicy(NilCacheKeyPolicy),
     BackendServiceCdnPolicy(CacheKeyPolicy(FALSE, <<>>, {})),
     BackendServiceCdnPolicy(CacheKeyPolicy(TRUE, <<"q">>, {}))}
WireObjects ==
    {WireBackendService(v, d, sp, lb, iap, cdn, force) :
        v \in Versions, d \in {"", "desc"},
        sp \in {"", "policy"}, lb \in {"", "RING_HASH"},
        iap \in WireIaps, cdn \in WireCdnPolicies, force \in {{}, {"Description"}}}

NoFirst == [from |-> "", be |-> NoComposite]

\* The values a Version may hold: the three versions, the unset marker, and
\* a value that names no version.
MarkerValues == Versions \cup {"", "v2"}

\* One cloud call: the method, the API it went through, and the Version it
\* was chosen by.
CloudCall(op, api, version) == [op |-> op, api |-> api, version |-> version]

\* GetBackendService(name, version, cloud, key), the cloud answering with the
\* wire object at hand (the one it holds, or the one written): one Get on the
\* API of the version, then toBackendService on what it gave.
toBackendServiceCall(version) ==
    /\ convPc \in {"wire", "written"}
    /\ ApiVersion(version) = convWire.version
    /\ convCalls' = Append(convCalls, CloudCall("Get", ApiVersion(version), version))
    /\ convComposite' = toBackendService(convWire)
    /\ convFirst' = IF convPc = "wire"
                    THEN [from |-> convWire.version, be |-> toBackendService(convWire)]
                    ELSE convFirst
    /\ convPc' = IF convPc = "wire" THEN "composite" ELSE "reread"
    /\ UNCHANGED convWire
    /\ UNCHANGED notConv

\* The caller sets the version it intends to write at.
SetVersion(version) ==
    /\ convPc = "composite"
    /\ convComposite.Version = ""
    /\ convComposite' = [convComposite EXCEPT !.Version = version]
    /\ UNCHANGED <<convWire, convFirst, convPc, convCalls>>
    /\ UNCHANGED notConv

\* CreateBackendService / UpdateBackendService (op "Insert" or "Update"): the
\* switch on Version converts the composite and passes the wire object to the
\* method of that version's API; marshalFails: the conversion returns an
\* error, which the function returns.
ConvertForWrite(op, marshalFails) ==
    /\ convPc = "composite"
    /\ IF marshalFails
       THEN /\ convPc' = "failed"
            /\ UNCHANGED <<convWire, convCalls>>
       ELSE /\ convWire' = toVersion(convComposite, ApiVersion(convComposite.Version))
            /\ convCalls' = Append(convCalls,
                                   CloudCall(op, ApiVersion(convComposite.Version),
                                             convComposite.Version))
            /\ convPc' = "written"
    /\ UNCHANGED <<convComposite, convFirst>>
    /\ UNCHANGED notConv

ConvInit ==
    /\ convWire \in {o \in WireObjects :
                        \A f \in DataFields \ WireTypeFields(o.version) :
                           o[f] = ScalarZero(f)}
    /\ convComposite = NoComposite
    /\ convFirst = NoFirst
    /\ convPc = "wire"
    /\ convCalls = <<>>
    /\ FwQuiet
    /\ DelQuiet
    /\ DiscQuiet
    /\ BeQuiet
    /\ RaceQuiet
    /\ LbQuiet
    /\ SrcQuiet
    /\ GenQuiet
    /\ FakeQuiet

ConvNext ==
    \/ \E version \in MarkerValues : toBackendServiceCall(version)
    \/ \E version \in MarkerValues \ {""} : SetVersion(version)
    \/ \E op \in {"Insert", "Update"}, marshalFails \in BOOLEAN :
          ConvertForWrite(op, marshalFails)

SpecConv == ConvInit /\ [][ConvNext]_vars

(***************************************************************************)
(* Properties of the composite conversions                                 *)
(***************************************************************************)
\* C27: a wire object converted to the composite type, written back at a
\* version and converted again gives the composite of the first conversion
\* on every field the written version has; written at the version it came
\* from, it gives the same composite.
C27_RoundTrip ==
    convPc = "reread"
        => /\ \A f \in WireTypeFields(convWire.version) :
                 convComposite[f] = convFirst.be[f]
           /\ convFirst.from = convWire.version => convComposite = convFirst.be

C27_Witness ==
    /\ convPc = "reread"
    /\ convFirst.from = VersionBeta
    /\ convWire.version = VersionBeta
    /\ convFirst.be.SecurityPolicy # ""
    /\ ~convFirst.be.Iap.isNil
    /\ ~convFirst.be.Iap.Enabled
    /\ ~convFirst.be.CdnPolicy.isNil

\* The fields of the composite type, in the order genTypes writes them.
CompositeTypeFields ==
    <<"Version", "Description", "SecurityPolicy", "LocalityLbPolicy", "Iap", "CdnPolicy">>

\* A comparison that takes every field of the composite type.
ComparedFieldsFromFirst == {CompositeTypeFields[i] : i \in 1..Len(CompositeTypeFields)}

\* The fields TestBackendService compares with the alpha type's: the loop
\* starts after the first.
ComparedFields == {CompositeTypeFields[i] : i \in 2..Len(CompositeTypeFields)}

\* C28: the object toAlpha/toBeta/toGA produce holds no Version data, whatever
\* the composite's Version, and the comparison of the composite type with the
\* alpha type leaves Version out.
C28_VersionNeverOnWire ==
    /\ convPc \in {"written", "reread"}
          => /\ "Version" \notin DOMAIN MarshalWire(convWire)
             /\ "Version" \notin WireTypeFields(convWire.version)
             /\ toBackendService(convWire).Version = ""
    /\ "Version" \notin ComparedFields
    /\ ComparedFields = WireTypeFields(VersionAlpha)

C28_Witness ==
    /\ convPc = "written"
    /\ convComposite.Version = VersionAlpha
    /\ "Version" \in DOMAIN MarshalComposite(convComposite)
    /\ convWire.version = VersionAlpha

\* C29: the wire object of a conversion has its CacheKeyPolicy and its Iap,
\* when present, marked to send their fields, so that their zero values are
\* written; nothing is marked where the sub-object is absent.
C29_ForceSendMarks ==
    convPc = "written"
        => /\ ~convWire.Iap.isNil
                => /\ convWire.Iap.ForceSendFields = IapForceSend
                   /\ IapFields \subseteq DOMAIN MarshalWire(convWire)["Iap"]
           /\ convWire.Iap.isNil => convWire.Iap.ForceSendFields = {}
           /\ (~convWire.CdnPolicy.isNil /\ ~convWire.CdnPolicy.CacheKeyPolicy.isNil)
                => /\ convWire.CdnPolicy.CacheKeyPolicy.ForceSendFields
                         = CacheKeyPolicyForceSend
                   /\ CacheKeyPolicyFields
                         \subseteq DOMAIN MarshalWire(convWire)["CdnPolicy"]["CacheKeyPolicy"]
           /\ (convWire.CdnPolicy.isNil \/ convWire.CdnPolicy.CacheKeyPolicy.isNil)
                => convWire.CdnPolicy.CacheKeyPolicy.ForceSendFields = {}
           /\ convWire.CdnPolicy.ForceSendFields = {}
           /\ convWire.ForceSendFields = {}

C29_Witness ==
    /\ convPc = "written"
    /\ ~convWire.Iap.isNil
    /\ ~convWire.Iap.Enabled
    /\ convWire.Iap.Oauth2ClientId = ""
    /\ ~convWire.CdnPolicy.isNil
    /\ ~convWire.CdnPolicy.CacheKeyPolicy.isNil
    /\ ~convWire.CdnPolicy.CacheKeyPolicy.IncludeHost
    /\ convWire.CdnPolicy.CacheKeyPolicy.QueryStringWhitelist = <<>>

(***************************************************************************)
(* Properties of the order of versions                                     *)
(***************************************************************************)
\* Whether a relation on the versions is a strict total order.
StrictTotalOrder(Lower(_, _)) ==
    /\ \A a \in Versions : ~Lower(a, a)
    /\ \A a, b, c \in Versions : (Lower(a, b) /\ Lower(b, c)) => Lower(a, c)
    /\ \A a, b \in Versions : a # b => (Lower(a, b) <=> ~Lower(b, a))

GetReadAgain == beResult.op = "Get" /\ Len(beResult.apis) = 2

L7ILBVersion == VersionFromFeatures(<<FeatureL7ILB>>)

MaxFeatures == 3

\* The feature lists of up to MaxFeatures entries, in any order and with
\* repetitions.
FeatureSeqs == UNION {[1..n -> Features] : n \in 0..MaxFeatures}

CreateCalled == beResult.op = "Create"

\* A feature added to a list, at its end or its start, never makes the
\* version of the list more stable, nor more stable than the feature needs.
MonotoneOnFeatureSeqs ==
    \A S \in FeatureSeqs : \A f \in Features :
        /\ ~MoreStable(VersionFromFeatures(Append(S, f)), VersionFromFeatures(S))
        /\ ~MoreStable(VersionFromFeatures(<<f>> \o S), VersionFromFeatures(S))
        /\ ~MoreStable(VersionFromFeatures(Append(S, f)), featureToVersion(f))

\* C31: versionFromFeatures of no feature is the stable version, and a
\* feature added to a list, at its end or its start, never makes the version
\* more stable; the version Backends.Create works at is that of the list of
\* its port's features, and L7ILBVersion that of the list of L7-ILB alone.
C31_VersionMonotone ==
    /\ VersionFromFeatures(<<>>) = VersionGA
    /\ MonotoneOnFeatureSeqs
    /\ L7ILBVersion = VersionAlpha
    /\ ~MoreStable(L7ILBVersion, VersionFromFeatures(<<>>))
    /\ CreateCalled
          => LET S == featuresFromServicePort(beResult.sp)
             IN /\ beResult.version = VersionFromFeatures(S)
                /\ \A n \in 1..Len(S) :
                      ~MoreStable(beResult.version, VersionFromFeatures(SubSeq(S, 1, n - 1)))

C31_Witness ==
    /\ CreateCalled
    /\ beResult.sp.ILBEnabled
    /\ beResult.sp.NEGEnabled
    /\ featuresFromServicePort(beResult.sp) = <<FeatureNEG, FeatureL7ILB>>
    /\ beResult.version = VersionAlpha
    /\ VersionFromFeatures(<<FeatureNEG>>) = VersionGA

(***************************************************************************)
(* Firewall controller: what an attempt depends on.                        *)
(***************************************************************************)
\* C32: what a sync attempt passes to the firewall pool and what it returns
\* is a function of what it observes (the ingresses, services, ready nodes
\* and subnets, the flag, whether the caches are synced, and how the calls of
\* the attempt answer), so two attempts that observe the same do the same,
\* whatever the queue holds and whatever attempts ran before.
C32_Stateless ==
    SyncReturned
        => LET managed == SelectSeq(IngressesList, IsGCEIngress)
               ilb == ilbFirewallSrcRange(managed, subnets, lastSync.listOK)
               calls == /\ hasSynced
                        /\ managed # <<>>
                        /\ lastSync.nodesOK
                        /\ ~(EnableL7Ilb /\ ilb.err # "")
           IN /\ lastSync.sync = IF calls THEN 1 ELSE 0
              /\ lastSync.gc = IF hasSynced /\ managed = <<>> THEN 1 ELSE 0
              /\ lastSync.nodeNames = IF calls THEN readyNodes ELSE {}
              /\ lastSync.negPorts =
                    IF calls THEN GatherEndpointPorts(managed, svcStore) ELSE {}
              /\ lastSync.additionalRanges =
                    IF calls /\ EnableL7Ilb THEN <<ilb.range>> ELSE <<>>
              /\ lastSync.err =
                    IF ~hasSynced THEN "waiting for stores to sync"
                    ELSE IF managed = <<>> THEN ""
                    ELSE IF ~lastSync.nodesOK THEN "node lister"
                    ELSE IF ~calls THEN ilb.err
                    ELSE IF lastSync.pool = "error" THEN "firewall sync" ELSE ""

C32_Witness ==
    /\ SyncReturned
    /\ lastSync.sync = 1
    /\ dirty = {queueKey}
    /\ lastSync.nodeNames # {}
    /\ lastSync.negPorts # {}
    /\ Len(lastSync.additionalRanges) = 1
    /\ lastSync.additionalRanges[1] # ""

(***************************************************************************)
(* Firewall controller: progress.  The worker of the task queue runs for   *)
(* as long as the controller does (FirewallController.Run): it takes the   *)
(* next key, runs sync on it and handles the result.                       *)
(***************************************************************************)
WorkerSyncs ==
    \E nodesOK \in BOOLEAN, listOK \in BOOLEAN, pool \in PoolOutcomes :
        WorkerSync(nodesOK, listOK, pool)

\* How many ingresses take part in the behaviours checked for progress.
NumLiveIngresses == 1

FwLiveNext ==
    \/ \E i \in 1..NumLiveIngresses : \E ing \in IngressShapes(i) : IngressAdd(i, ing)
    \/ \E i \in 1..NumLiveIngresses : \E ing \in IngressShapes(i) : IngressUpdate(i, ing)
    \/ \E i \in 1..NumLiveIngresses : IngressDelete(i)
    \/ \E s \in Services : ServiceAdd(s)
    \/ \E s \in Services : \E changed \in BOOLEAN : ServiceUpdate(s, changed)
    \/ \E s \in Services : ServiceDelete(s)
    \/ CachesSynced
    \/ \E n \in NodeSets : NodesChange(n)
    \/ WorkerGet
    \/ WorkerSyncs
    \/ WorkerDone

SpecFWLive ==
    /\ FwInit
    /\ [][FwLiveNext]_vars
    /\ WF_vars(WorkerGet)
    /\ WF_vars(WorkerSyncs)
    /\ WF_vars(WorkerDone)

\* A trigger is waiting: the sentinel key was enqueued and no attempt has
\* taken it yet.
Triggered == queueKey \in dirty

\* A call of the attempt that has returned failed: the node lister, the
\* resolution of a needed ILB subnet, or firewallPool.Sync with an error that
\* is not an XPN error.
CallFailed ==
    /\ SyncReturned
    /\ \/ ~lastSync.nodesOK
       \/ NeedsIlbSubnet /\ IlbSubnetUnresolved
       \/ lastSync.pool = "error"

\* The attempt returned success after the one pool call the ingresses ask for.
SyncSucceeded ==
    /\ SyncReturned
    /\ lastSync.err = ""
    /\ IF ManagedIds # {} THEN lastSync.sync = 1 /\ lastSync.gc = 0
       ELSE lastSync.gc = 1 /\ lastSync.sync = 0

\* C33: if from some point on the caches are synced and no call of an attempt
\* fails, every trigger is followed by an attempt that returns success after
\* calling Sync (a managed ingress exists) or GC (none exists).
C33_TriggerLeadsToSync ==
    <>[](hasSynced /\ ~CallFailed) => (Triggered ~> SyncSucceeded)

C33_Witness ==
    /\ SyncSucceeded
    /\ lastSync.sync = 1
    /\ lastSync.pool = "xpn"
    /\ processing = {queueKey}
    /\ Triggered

(***************************************************************************)
(* Firewall controller: what the handlers enqueue.                         *)
(***************************************************************************)
QueueUnchanged == UNCHANGED <<wq, dirty, processing>>

\* A known ingress references the service.
KnownIngressReferences(svc) ==
    \E i \in IngressIds : ingStore[i].present /\ BackendOf(i) = svc

\* The handler's ingress of a step that changes ingress i: the one added or
\* updated to, or the one deleted.
HandledIngress(i) == IF ingStore'[i].present THEN ingStore'[i] ELSE ingStore[i]

\* C34: a step that adds a service enqueues the sentinel key if a known
\* ingress references the service and leaves the queue alone if none does; so
\* does the update of a service whose old and new object differ, and an
\* update with equal objects leaves the queue alone; a step that adds,
\* updates or deletes an ingress enqueues the sentinel key if the ingress is
\* a GCE or GCE multi-cluster ingress and leaves the queue alone otherwise.
C34_Handlers ==
    [][/\ \A s \in Services :
             s \in svcStore' \ svcStore
                => IF KnownIngressReferences(s)
                   THEN queueKey \in dirty' ELSE QueueUnchanged
       /\ QueueUnchanged \/ \A s \in Services : ~ServiceUpdate(s, FALSE)
       /\ \A s \in Services :
             \/ IF KnownIngressReferences(s)
                THEN queueKey \in dirty' ELSE QueueUnchanged
             \/ ~ServiceUpdate(s, TRUE)
       /\ \A i \in IngressIds :
             ingStore'[i] # ingStore[i]
                => IF HandledIngress(i).gce \/ HandledIngress(i).mci
                   THEN queueKey \in dirty' /\ dirty' \subseteq dirty \cup {queueKey}
                   ELSE QueueUnchanged
       /\ \/ QueueUnchanged
          \/ \A i \in IngressIds :
                ingStore[i].gce \/ ingStore[i].mci \/ ~IngressUpdate(i, ingStore[i])]_vars

C34_Witness ==
    /\ svcStore = {"svc-b"}
    /\ ingStore[1].present
    /\ ~ingStore[1].gce
    /\ ~ingStore[1].mci
    /\ \A i \in IngressIds : i # 1 => ~ingStore[i].present
    /\ dirty = {}
    /\ wq = <<>>
    /\ fwPc = "idle"
    /\ ~hasSynced

\* compute{alpha,beta,}.BackendService{}: the zero value of a wire type.
ZeroBackendService(version) ==
    WireBackendService(version, "", "", "", NilIap, NilCdnPolicy, {})

\* C35: the zero-valued wire BackendService of each version converts to the
\* empty composite BackendService, whose Version is unset.
C35_ZeroToEmpty ==
    /\ \A v \in Versions : toBackendService(ZeroBackendService(v)) = NoComposite
    /\ NoComposite.Version = ""
    /\ (convPc = "composite" /\ convWire = ZeroBackendService(convFirst.from))
          => /\ convFirst.be = NoComposite
             /\ convFirst.be.Version = ""
             /\ [convComposite EXCEPT !.Version = ""] = NoComposite

C35_Witness ==
    /\ convPc = "composite"
    /\ convFirst.from = VersionBeta
    /\ convWire = ZeroBackendService(VersionBeta)
    /\ convComposite = NoComposite

\* The API the claim names for a Version.
TrackOf(version) ==
    CASE version = "alpha" -> "alpha"
      [] version = "beta" -> "beta"
      [] OTHER -> "ga"

\* How many composite functions have run.
FunctionsRun ==
    CASE convPc = "wire" -> 0
      [] convPc = "composite" -> 1
      [] convPc = "failed" -> 2
      [] convPc = "written" -> 2
      [] OTHER -> 3

\* C38: each Create, Update and Get of a composite resource issues one cloud
\* call, through the alpha API for VersionAlpha, the beta API for VersionBeta
\* and the GA API for any other Version, the unset one included; a Create or
\* Update whose conversion fails returns the error and issues no call.
C38_OneCallOnTrack ==
    /\ Len(convCalls) = IF convPc = "failed" THEN 1 ELSE FunctionsRun
    /\ \A n \in 1..Len(convCalls) :
          /\ convCalls[n].api = TrackOf(convCalls[n].version)
          /\ n # 2 => convCalls[n].op = "Get"
          /\ n = 2 => convCalls[n].op \in {"Insert", "Update"}
          /\ (n = 2 /\ convPc = "written")
                => /\ convCalls[n].version = convComposite.Version
                   /\ convWire.version = convCalls[n].api
    /\ convPc = "failed" => \A n \in 1..Len(convCalls) : convCalls[n].op = "Get"

C38_Witness ==
    /\ convPc = "written"
    /\ Len(convCalls) = 2
    /\ convCalls[1] = CloudCall("Get", VersionAlpha, VersionAlpha)
    /\ convCalls[2] = CloudCall("Update", VersionGA, "v2")
    /\ convWire.version = VersionGA

(***************************************************************************)
(* GCLB discovery: the key of the URL-map Get.                             *)
(***************************************************************************)
\* C36: GCLBForVIP ends with a graph or an error, never a panic, and issues
\* the URL-map Get only with the key a target proxy of the VIP's rules gave:
\* with no forwarding rule at the VIP the Get is not what ends discovery.
C36_UrlMapKeyFromProxy ==
    DiscReturned
        => /\ discResult.status \in {"ok", "error"}
           /\ discResult.err = "get url map" => UrlMapsOfVIP(discResult.vip) # {}

(***************************************************************************)
(* Firewall controller: the ingresses the handlers and sync look at.       *)
(***************************************************************************)
\* The ingresses whose events enqueue a sync.
EnqueueingIds ==
    {i \in IngressIds : ingStore[i].present /\ (ingStore[i].gce \/ ingStore[i].mci)}

\* C37: sync counts every ingress whose events enqueue a sync: an attempt
\* that sees a GCE or GCE multi-cluster ingress in the store does not call
\* the pool's GC.
C37_EnqueueingIngressCounted ==
    (SyncReturned /\ EnqueueingIds # {}) => lastSync.gc = 0

(***************************************************************************)
(* FakeLoadBalancers (pkg/loadbalancers/fakes.go): the fake cloud the      *)
(* load-balancer tests run against.  Each resource kind is a list of       *)
(* objects; a stored object is modelled by its Name, the only field Get    *)
(* and Delete look at.  Create appends without looking for the name, so a  *)
(* list can hold one name several times.                                   *)
(***************************************************************************)
\* The fields of FakeLoadBalancers that hold resources.
FakeKinds == {"Fw", "Um", "Tp", "Tps", "IP", "Certs"}

FakeNames == {"a", "b"}

\* The most objects the lists hold together.
MaxStored == 2

FakeCertQuota == 15

\* utils.FakeGoogleAPINotFoundErr()
FakeGoogleAPINotFoundErr == "notfound"

\* The entry each function appends to f.calls.
GetCallName ==
    [Fw |-> "GetGlobalForwardingRule", Um |-> "GetURLMap", Tp |-> "GetTargetHTTPProxy",
     Tps |-> "GetTargetHTTPSProxy", IP |-> "GetGlobalAddress", Certs |-> "GetSslCertificate"]

CreateCallName ==
    [Fw |-> "CreateGlobalForwardingRule", Um |-> "CreateURLMap",
     Tp |-> "CreateTargetHTTPProxy", Tps |-> "CreateTargetHTTPSProxy",
     IP |-> "ReserveGlobalAddress", Certs |-> "CreateSslCertificate"]

DeleteCallName ==
    [Fw |-> "DeleteGlobalForwardingRule", Um |-> "DeleteURLMap",
     Tp |-> "DeleteTargetHTTPProxy", Tps |-> "DeleteTargetHTTPSProxy",
     IP |-> "DeleteGlobalAddress", Certs |-> "DeleteSslCertificate"]

NoFakeCall == [op |-> "none"]

StoredCount(lb) ==
    Len(lb.Fw) + Len(lb.Um) + Len(lb.Tp) + Len(lb.Tps) + Len(lb.IP) + Len(lb.Certs)

\* The names a list holds.
StoredNames(list) == {list[i] : i \in 1..Len(list)}

\* The loop of the Get functions: the first object of the name, or not-found.
GetStored(list, name) ==
    IF \E i \in 1..Len(list) : list[i] = name
    THEN [found |-> TRUE, err |-> ""]
    ELSE [found |-> FALSE, err |-> FakeGoogleAPINotFoundErr]

\* A deletion that drops the first object of the name only.
AllButFirstNamed(list, name) ==
    IF \E i \in 1..Len(list) : list[i] = name
    THEN LET first == CHOOSE i \in 1..Len(list) :
                          list[i] = name /\ \A j \in 1..(i - 1) : list[j] # name
         IN  [j \in 1..(Len(list) - 1) |-> IF j < first THEN list[j] ELSE list[j + 1]]
    ELSE list

\* The loop of the Delete functions: the objects of any other name, in order.
AllButNamed(list, name) == SelectSeq(list, LAMBDA n : n # name)

\* NewFakeLoadBalancers: no object of any kind.
FakeInit ==
    /\ fakeLb = [kind \in FakeKinds |-> <<>>]
    /\ fakeResult = NoFakeCall
    /\ FwQuiet
    /\ DelQuiet
    /\ DiscQuiet
    /\ BeQuiet
    /\ RaceQuiet
    /\ LbQuiet
    /\ SrcQuiet
    /\ ConvQuiet
    /\ GenQuiet

\* GetGlobalForwardingRule, GetURLMap, GetTargetHTTPProxy, GetTargetHTTPSProxy,
\* GetGlobalAddress, GetSslCertificate.
FakeGet(kind, name) ==
    /\ fakeResult' = [op |-> "Get", kind |-> kind, name |-> name,
                      call |-> GetCallName[kind],
                      found |-> GetStored(fakeLb[kind], name).found,
                      err |-> GetStored(fakeLb[kind], name).err,
                      before |-> fakeLb]
    /\ UNCHANGED fakeLb
    /\ UNCHANGED notFake

\* CreateGlobalForwardingRule, CreateURLMap, CreateTargetHTTPProxy,
\* CreateTargetHTTPSProxy, ReserveGlobalAddress, CreateSslCertificate: the
\* object is appended, whatever the list holds; only certificates have a quota.
FakeCreate(kind, name) ==
    /\ StoredCount(fakeLb) < MaxStored
    /\ IF kind = "Certs" /\ Len(fakeLb.Certs) = FakeCertQuota
       THEN /\ fakeResult' = [op |-> "Create", kind |-> kind, name |-> name,
                              call |-> CreateCallName[kind], found |-> FALSE,
                              err |-> "unable to create cert", before |-> fakeLb]
            /\ UNCHANGED fakeLb
       ELSE /\ fakeLb' = [fakeLb EXCEPT ![kind] = Append(@, name)]
            /\ fakeResult' = [op |-> "Create", kind |-> kind, name |-> name,
                              call |-> CreateCallName[kind], found |-> FALSE,
                              err |-> "", before |-> fakeLb]
    /\ UNCHANGED notFake

\* DeleteGlobalForwardingRule, DeleteURLMap, DeleteTargetHTTPProxy,
\* DeleteTargetHTTPSProxy, DeleteGlobalAddress, DeleteSslCertificate.
FakeDelete(kind, name) ==
    LET kept == AllButNamed(fakeLb[kind], name)
    IN  /\ IF Len(fakeLb[kind]) = Len(kept)
           THEN /\ fakeResult' = [op |-> "Delete", kind |-> kind, name |-> name,
                                  call |-> DeleteCallName[kind], found |-> FALSE,
                                  err |-> FakeGoogleAPINotFoundErr, before |-> fakeLb]
                /\ UNCHANGED fakeLb
           ELSE /\ fakeLb' = [fakeLb EXCEPT ![kind] = kept]
                /\ fakeResult' = [op |-> "Delete", kind |-> kind, name |-> name,
                                  call |-> DeleteCallName[kind], found |-> FALSE,
                                  err |-> "", before |-> fakeLb]
        /\ UNCHANGED notFake

FakeNext ==
    \/ \E kind \in FakeKinds, name \in FakeNames : FakeGet(kind, name)
    \/ \E kind \in FakeKinds, name \in FakeNames : FakeCreate(kind, name)
    \/ \E kind \in FakeKinds, name \in FakeNames : FakeDelete(kind, name)

SpecFake == FakeInit /\ [][FakeNext]_vars

\* C40: for every resource kind, after any creates and deletes, a Delete of
\* a name the list does not hold returns not-found and leaves every list as
\* it was, and after a Delete that returned no error a Get of the name
\* returns not-found, however often the name had been created.
C40_DeleteThenNotFound ==
    fakeResult.op = "Delete"
        => /\ fakeResult.name \notin StoredNames(fakeResult.before[fakeResult.kind])
                 => /\ fakeResult.err = FakeGoogleAPINotFoundErr
                    /\ fakeLb = fakeResult.before
           /\ fakeResult.err = ""
                 => /\ GetStored(fakeLb[fakeResult.kind], fakeResult.name).err
                          = FakeGoogleAPINotFoundErr
                    /\ ~GetStored(fakeLb[fakeResult.kind], fakeResult.name).found
           /\ fakeResult.err \in {"", FakeGoogleAPINotFoundErr}

\* A Delete succeeded on a list that held the name twice, next to another name.
C40_Witness ==
    /\ fakeResult.op = "Delete"
    /\ fakeResult.err = ""
    /\ \E i, j \in 1..Len(fakeResult.before[fakeResult.kind]) :
          /\ i # j
          /\ fakeResult.before[fakeResult.kind][i] = fakeResult.name
          /\ fakeResult.before[fakeResult.kind][j] = fakeResult.name
    /\ fakeLb[fakeResult.kind] = <<>>

(***************************************************************************)
(* The composite code generator (pkg/composite/gen): populateApiServices   *)
(* walks the API schema breadth-first from the main services and fills     *)
(* AllApiServices.  A JSON object is a function from its keys; Go type     *)
(* names are sequences of tokens, "*" + refName being <<"*", refName>>.    *)
(***************************************************************************)
\* The keys of MainServices.
MainServices == {"BackendService", "UrlMap"}

\* The types the schemas define; a $ref to "PathMatcher" finds no schema.
SchemaTypes == {"BackendService", "UrlMap", "Backend"}

\* Go's < on the names in use.
NameOrder ==
    <<"Backend", "BackendService", "Backends", "DefaultService", "Group",
      "PathMatcher", "Protocol", "UrlMap">>

NameRank(name) == CHOOSE i \in 1..Len(NameOrder) : NameOrder[i] = name

NameLess(a, b) == NameRank(a) < NameRank(b)

\* strings.Title(prop)
Title(prop) ==
    CASE prop = "backends" -> "Backends"
      [] prop = "protocol" -> "Protocol"
      [] prop = "defaultService" -> "DefaultService"
      [] prop = "group" -> "Group"

\* createVarName(typeName)
createVarName(str) ==
    CASE str = "BackendService" -> "backendService"
      [] str = "UrlMap" -> "urlMap"
      [] str = "Backend" -> "backend"
      [] OTHER -> str

\* Property schemas.
Ref(refName) == "$ref" :> refName

ArrayOf(items) == ("type" :> "array") @@ ("items" :> items)

MapOf(addlProps) == ("type" :> "object") @@ ("additionalProperties" :> addlProps)

PlainObject == "type" :> "object"

Typed(type) == "type" :> type

Formatted(type, format) == ("type" :> type) @@ ("format" :> format)

\* A property schema with no "$ref", no "type" and no "format".
Untyped == "description" :> "d"

\* The schemas populateApiServices is run on: the properties of a type have
\* different names under strings.Title.
Schemas ==
    {  ("BackendService" :> (("backends" :> backends) @@ ("protocol" :> protocol)))
    @@ ("UrlMap" :> ("defaultService" :> defaultService))
    @@ ("Backend" :> ("group" :> group)) :
       backends \in {Ref("BackendService"), Ref("UrlMap"), Ref("Backend"),
                     ArrayOf(Ref("Backend")), Typed("string")},
       protocol \in {Ref("UrlMap"), MapOf(Ref("Backend")),
                     Formatted("integer", "int32"), Typed("boolean")},
       defaultService \in {Ref("BackendService"), Ref("Backend"), Ref("PathMatcher"),
                           PlainObject, Untyped},
       group \in {Ref("Backend"), Ref("BackendService"),
                  Formatted("string", "int64"), Typed("string")} }

GoTyped(propType, queue, override) ==
    [propType |-> propType, typesQueue |-> queue, override |-> override,
     err |-> FALSE, panicked |-> FALSE]

GoTypePanic(queue) ==
    [propType |-> <<>>, typesQueue |-> queue, override |-> FALSE,
     err |-> FALSE, panicked |-> TRUE]

RECURSIVE getGoType(_, _)
\* getGoType(val, typesQueue): the Go type of a property, the queue with the
\* types it refers to appended, and whether the JSON tag is forced to string.
getGoType(field, queue) ==
    LET has(key) == key \in DOMAIN field
        typeIs(type) == has("type") /\ field["type"] = type
        Wrapped(prefix, inner) ==
            IF inner.panicked THEN inner
            ELSE [inner EXCEPT !.propType = <<prefix>> \o @]
        found ==
            IF has("$ref")
            THEN GoTyped(<<"*", field["$ref"]>>, Append(queue, field["$ref"]), FALSE)
            ELSE IF typeIs("array")
            THEN IF has("items")
                 THEN Wrapped("[]", getGoType(field["items"], queue))
                 ELSE GoTypePanic(queue)
            ELSE IF typeIs("object")
            THEN IF has("additionalProperties")
                 THEN Wrapped("map[string]", getGoType(field["additionalProperties"], queue))
                 ELSE GoTyped(<<"map[string]string">>, queue, FALSE)
            ELSE IF has("format")
            THEN GoTyped(<<CASE field["format"] = "byte" -> "string"
                             [] field["format"] = "float" -> "float64"
                             [] field["format"] = "int32" -> "int64"
                             [] OTHER -> field["format"]>>, queue, FALSE)
            ELSE IF ~has("type")
            THEN GoTypePanic(queue)
            ELSE IF field["type"] # ""
            THEN GoTyped(<<IF field["type"] = "boolean" THEN "bool" ELSE field["type"]>>,
                         queue, FALSE)
            ELSE [GoTyped(<<>>, queue, FALSE) EXCEPT !.err = TRUE]
    IN  IF ~found.panicked /\ typeIs("string") /\ found.propType # <<"string">>
        THEN [found EXCEPT !.override = TRUE]
        ELSE found

RECURSIVE NamedFrom(_, _)
\* The services named by NameOrder[rank] and the names after it, in that order.
NamedFrom(services, rank) ==
    IF rank > Len(NameOrder) THEN <<>>
    ELSE SelectSeq(services, LAMBDA service : service.Name = NameOrder[rank])
            \o NamedFrom(services, rank + 1)

\* sort.Slice(services, func(i, j) { return services[i].Name < services[j].Name })
SortByName(services) == NamedFrom(services, 1)

RECURSIVE ParseFields(_, _, _)
\* The loop over the properties of a type, in the order the map yields them.
ParseFields(fields, order, queue) ==
    IF order = <<>> THEN [Fields |-> <<>>, typesQueue |-> queue, panicked |-> FALSE]
    ELSE LET prop == Head(order)
             goType == getGoType(fields[prop], queue)
             rest == ParseFields(fields, Tail(order), goType.typesQueue)
             subType == [Name |-> Title(prop), JsonName |-> prop,
                         GoType |-> goType.propType,
                         JsonStringOverride |-> goType.override]
         IN  IF goType.panicked \/ goType.err
             THEN [Fields |-> <<>>, typesQueue |-> goType.typesQueue, panicked |-> TRUE]
             ELSE [rest EXCEPT !.Fields = <<subType>> \o @]

\* A generator that parses a type however often it is queued.
NeverParsed(done, typeName) == FALSE

\* completed.Has(typeName)
AlreadyParsed(done, typeName) == typeName \in done

\* populateApiServices up to its loop: the keys of MainServices are queued in
\* the order the map yields them.
GenInit ==
    /\ genSchema \in Schemas
    /\ typesQueue \in Orders(MainServices)
    /\ completed = {}
    /\ AllApiServices = <<>>
    /\ genPc = "parsing"
    /\ FwQuiet
    /\ DelQuiet
    /\ DiscQuiet
    /\ BeQuiet
    /\ RaceQuiet
    /\ LbQuiet
    /\ SrcQuiet
    /\ ConvQuiet
    /\ FakeQuiet

\* The loop of populateApiServices goes on with the services and the queue
\* it has; when the queue is empty it ends the loop and sorts AllApiServices.
LoopOn(done, services, queue) ==
    [typesQueue |-> queue,
     completed |-> done,
     AllApiServices |-> IF queue = <<>> THEN SortByName(services) ELSE services,
     genPc |-> IF queue = <<>> THEN "done" ELSE "parsing"]

\* panic(...)
LoopPanics(done, services, queue) ==
    [typesQueue |-> queue, completed |-> done, AllApiServices |-> services,
     genPc |-> "panicked"]

\* What one iteration of the loop of populateApiServices may leave, one
\* outcome for each order in which the map of properties may be iterated.
LoopIteration(schema, queue, done, services) ==
    LET typeName == Head(queue)
        left == Tail(queue)
        parsedNow == done \cup {typeName}
    IN  IF AlreadyParsed(done, typeName) THEN {LoopOn(done, services, left)}
        ELSE IF typeName \notin DOMAIN schema THEN {LoopPanics(parsedNow, services, left)}
        ELSE {LET parsed == ParseFields(schema[typeName], order, left)
                  apiService == [Name |-> typeName,
                                 VarName |-> createVarName(typeName),
                                 Fields |-> SortByName(parsed.Fields)]
              IN  IF parsed.panicked
                  THEN LoopPanics(parsedNow, services, parsed.typesQueue)
                  ELSE LoopOn(parsedNow, Append(services, apiService), parsed.typesQueue) :
              order \in Orders(DOMAIN schema[typeName])}

\* One iteration of the loop of populateApiServices; the iteration that
\* leaves the queue empty ends with the sort of AllApiServices.
ParseType ==
    /\ genPc = "parsing"
    /\ typesQueue # <<>>
    /\ \E left \in LoopIteration(genSchema, typesQueue, completed, AllApiServices) :
          /\ typesQueue' = left.typesQueue
          /\ completed' = left.completed
          /\ AllApiServices' = left.AllApiServices
          /\ genPc' = left.genPc
    /\ UNCHANGED genSchema
    /\ UNCHANGED notGen

GenNext == ParseType

\* populateApiServices runs to its end: nothing else is scheduled.
SpecGen == GenInit /\ [][GenNext]_vars /\ WF_vars(ParseType)

RECURSIVE RefsOf(_)
\* The types a property schema refers to.
RefsOf(field) ==
    IF "$ref" \in DOMAIN field THEN {field["$ref"]}
    ELSE IF "type" \in DOMAIN field /\ field["type"] = "array" /\ "items" \in DOMAIN field
    THEN RefsOf(field["items"])
    ELSE IF /\ "type" \in DOMAIN field
            /\ field["type"] = "object"
            /\ "additionalProperties" \in DOMAIN field
    THEN RefsOf(field["additionalProperties"])
    ELSE {}

RECURSIVE HasGoType(_)
\* The property schema says what the property is: a reference, an array or a
\* map of such, a format, or a type.
HasGoType(field) ==
    IF "$ref" \in DOMAIN field THEN TRUE
    ELSE IF "type" \in DOMAIN field /\ field["type"] = "array"
    THEN "items" \in DOMAIN field /\ HasGoType(field["items"])
    ELSE IF "type" \in DOMAIN field /\ field["type"] = "object"
    THEN "additionalProperties" \in DOMAIN field => HasGoType(field["additionalProperties"])
    ELSE "format" \in DOMAIN field \/ ("type" \in DOMAIN field /\ field["type"] # "")

RECURSIVE ReachableFrom(_, _)
\* The types reachable from the types of a set through references.
ReachableFrom(schema, types) ==
    LET referred == UNION {UNION {RefsOf(schema[t][prop]) : prop \in DOMAIN schema[t]} :
                              t \in types \cap DOMAIN schema}
    IN  IF referred \subseteq types THEN types
        ELSE ReachableFrom(schema, types \cup referred)

Reachable(schema) == ReachableFrom(schema, MainServices)

\* Every reachable type has a schema and every property of it a Go type.
SchemaParses(schema) ==
    \A t \in Reachable(schema) :
       /\ t \in DOMAIN schema
       /\ \A prop \in DOMAIN schema[t] : HasGoType(schema[t][prop])

\* The names of a set in sorted order.
SortedNames(names) == SelectSeq(NameOrder, LAMBDA name : name \in names)

NamesOf(services) == [i \in 1..Len(services) |-> services[i].Name]

\* The service of a type, as the schema alone determines it.
EmittedFor(schema, service) ==
    /\ service.VarName = createVarName(service.Name)
    /\ NamesOf(service.Fields)
          = SortedNames({Title(prop) : prop \in DOMAIN schema[service.Name]})
    /\ \A j \in 1..Len(service.Fields) :
          LET subType == service.Fields[j]
          IN  /\ subType.JsonName \in DOMAIN schema[service.Name]
              /\ subType.Name = Title(subType.JsonName)
              /\ subType.GoType
                    = getGoType(schema[service.Name][subType.JsonName], <<>>).propType
              /\ subType.JsonStringOverride
                    = getGoType(schema[service.Name][subType.JsonName], <<>>).override

\* No type is in AllApiServices twice.
EmittedOnce ==
    \A i, j \in 1..Len(AllApiServices) :
       AllApiServices[i].Name = AllApiServices[j].Name => i = j

\* AllApiServices holds the reachable types, each once, in sorted order, and
\* each with its fields in sorted order.
EmittedSorted ==
    /\ NamesOf(AllApiServices) = SortedNames(Reachable(genSchema))
    /\ \A i \in 1..Len(AllApiServices) : EmittedFor(genSchema, AllApiServices[i])

\* C39: populateApiServices terminates on every schema, cyclic references
\* included; no type is emitted twice; it panics only on a schema with a
\* reachable type that is missing or has a property without a Go type; and
\* when it returns AllApiServices holds every type reachable from the main
\* services exactly once, types and fields sorted by name, whatever the
\* order in which the maps were iterated.
C39_TerminatesEmittedSorted ==
    /\ <>(genPc \in {"done", "panicked"})
    /\ [](EmittedOnce)
    /\ [](genPc = "panicked" => ~SchemaParses(genSchema))
    /\ [](genPc = "done" => typesQueue = <<>> /\ EmittedSorted)

\* populateApiServices returned on a schema in which BackendService and
\* UrlMap refer to each other and Backend, reached through a map, to itself.
C39_Witness ==
    /\ genPc = "done"
    /\ genSchema["BackendService"]["backends"] = Ref("UrlMap")
    /\ genSchema["BackendService"]["protocol"] = MapOf(Ref("Backend"))
    /\ genSchema["UrlMap"]["defaultService"] = Ref("BackendService")
    /\ genSchema["Backend"]["group"] = Ref("Backend")
    /\ Len(AllApiServices) = 3

====
